---- MODULE Spec2Model ----
(***************************************************************************)
(* The System-Constitution validator: the six validation phases, the       *)
(* orchestrator validate() with buildResult(), and validateYaml().         *)
(*                                                                         *)
(* Parsed YAML values are untyped in the source.  Here every value the     *)
(* code inspects is a record with a "tag" (absent / null / obj / arr ...)  *)
(* or a string; UNDEF, NULLV and NUMV are the strings standing for the     *)
(* JavaScript values undefined, null and a number.                         *)
(***************************************************************************)
EXTENDS Integers, Sequences, FiniteSets, TLC

UNDEF == "~undefined"
NULLV == "~null"
NUMV  == "~5"

\* JavaScript truthiness of a scalar: undefined, null and "" are falsy.
Falsy(s) == s \in {UNDEF, NULLV, ""}

\* typeof v === 'string'
IsString(s) == s \notin {UNDEF, NULLV, NUMV}

\* `${i}` for the zero-based index of the i-th element of a sequence
Idx(i) == ToString(i - 1)

RECURSIVE Flatten(_)
Flatten(ss) == IF ss = <<>> THEN <<>> ELSE Head(ss) \o Flatten(Tail(ss))

Range(s) == {s[i] : i \in DOMAIN s}

(***************************************************************************)
(* ValidationError and phase outcomes                                      *)
(***************************************************************************)
\* Of the message only what tells two findings of equal code and location
\* apart is kept: "" unless stated (the other messages are functions of the
\* code, the location and the document).  cycle is context.cycle.
ErrMsg(code, phase, level, location, message) ==
  [code |-> code, phase |-> phase, level |-> level, location |-> location,
   message |-> message, cycle |-> <<>>]

Err(code, phase, level, location) == ErrMsg(code, phase, level, location, "")

\* A phase function either returns its list of findings or throws.
Returned(errors) == [throws |-> FALSE, errors |-> errors]
Thrown == [throws |-> TRUE, errors |-> <<>>]

(***************************************************************************)
(* Phase 1: structural                                                     *)
(***************************************************************************)
VALID_KINDS ==
  {"System", "Module", "Entity", "Enum", "Value", "Interface", "Command",
   "Event", "Query", "Process", "Step", "Policy", "Scenario", "Contract"}

\* The ids of the model and whether ID_PATTERN = /^[a-z][a-z0-9_.-]*$/
\* matches them.  RegExp.test coerces its argument to a string, so null
\* ("null") and undefined ("undefined") match, a number ("5") does not.
BadIds == {"Bad!", NUMV, ""}
ID_PATTERN(id) == id \notin BadIds

\* validateNode without the seenIds bookkeeping: the errors of one node
\* given whether its id has been seen before.
validateNode(n, location, seen) ==
  IF n.tag # "obj"
  THEN << Err("INVALID_NODE", 1, "hard", location) >>
  ELSE
    (IF n.kind = UNDEF
     THEN << Err("MISSING_NODE_KIND", 1, "hard", location) >>
     ELSE IF n.kind \notin VALID_KINDS
          THEN << Err("INVALID_NODE_KIND", 1, "hard", location \o ".kind") >>
          ELSE <<>>)
    \o
    (IF n.id = UNDEF
     THEN << Err("MISSING_NODE_ID", 1, "hard", location) >>
     ELSE (IF ~ID_PATTERN(n.id)
           THEN << Err("INVALID_NODE_ID", 1, "hard", location \o ".id") >>
           ELSE <<>>)
          \o
          (IF seen
           THEN << Err("DUPLICATE_NODE_ID", 1, "hard", location \o ".id") >>
           ELSE <<>>))
    \o
    (IF n.spec.tag = "absent"
     THEN << Err("MISSING_NODE_SPEC", 1, "hard", location) >>
     ELSE IF n.spec.tag # "obj"
          THEN << Err("MISSING_NODE_SPEC", 1, "hard", location \o ".spec") >>
          ELSE <<>>)
    \o
    (IF n.children.tag \notin {"absent", "arr"}
     THEN << Err("STRUCTURAL_ERROR", 1, "hard", location \o ".children") >>
     ELSE <<>>)

\* seenIds that records an id only when it has the valid format
seenIds_valid(nodes, i) ==
  {nodes[j].id : j \in {k \in 1..(i - 1) :
                          nodes[k].tag = "obj" /\ nodes[k].id # UNDEF
                          /\ ID_PATTERN(nodes[k].id)}}

\* seenIds when the forEach reaches index i: the ids of the earlier nodes
\* that are objects and have an 'id' key.
seenIds(nodes, i) ==
  {nodes[j].id : j \in {k \in 1..(i - 1) :
                          nodes[k].tag = "obj" /\ nodes[k].id # UNDEF}}

validateNodes(nodes) ==
  Flatten([i \in DOMAIN nodes |->
             validateNode(nodes[i], "domain.nodes[" \o Idx(i) \o "]",
                          nodes[i].tag = "obj" /\ nodes[i].id \in seenIds(nodes, i))])

validateStructural(s) ==
  IF s.tag # "obj"
  THEN Returned(<< ErrMsg("STRUCTURAL_ERROR", 1, "hard", "", "Spec must be an object") >>)
  ELSE IF s.project.tag = "null" \/ s.structure.tag = "null" \/ s.domain.tag = "null"
  THEN Thrown  \* property read on null: project.id, structure.root, domain.nodes
  ELSE Returned(
    (IF s.spec = UNDEF
     THEN << Err("MISSING_SPEC_VERSION", 1, "hard", "") >>
     ELSE IF s.spec # "sysconst/v1"
          THEN << Err("INVALID_SPEC_VERSION", 1, "hard", "spec") >>
          ELSE <<>>)
    \o
    (IF s.project.tag = "absent"
     THEN << Err("MISSING_PROJECT", 1, "hard", "") >>
     ELSE (IF Falsy(s.project.id)
           THEN << Err("MISSING_PROJECT_ID", 1, "hard", "project") >>
           ELSE <<>>)
          \o
          (IF s.project.versioning.tag # "obj"
           THEN << Err("MISSING_VERSIONING", 1, "hard", "project") >>
           ELSE IF Falsy(s.project.versioning.current)
                THEN << Err("MISSING_CURRENT_VERSION", 1, "hard", "project.versioning") >>
                ELSE <<>>))
    \o
    (IF s.structure.tag = "absent"
     THEN << Err("MISSING_STRUCTURE", 1, "hard", "") >>
     ELSE IF Falsy(s.structure.root)
          THEN << Err("MISSING_STRUCTURE_ROOT", 1, "hard", "structure") >>
          ELSE <<>>)
    \o
    (IF s.domain.tag = "absent"
     THEN << Err("MISSING_DOMAIN", 1, "hard", "") >>
     ELSE IF s.domain.nodes.tag # "arr"
          THEN << Err("MISSING_DOMAIN_NODES", 1, "hard", "domain") >>
          ELSE validateNodes(s.domain.nodes.items)))

(***************************************************************************)
(* Phase 2: referential                                                    *)
(***************************************************************************)
\* The node ids that reference strings of the model can name.
RefIds == {"a", "b", "c", "zz"}

Ref(id) == "NodeRef(" \o id \o ")"

\* NODEREF_PATTERN = /^NodeRef\(([a-z][a-z0-9_.-]*)\)$/ : whether it matches
\* and the captured group.  exec coerces a non-string to a string, which
\* never has the NodeRef(...) form.
NODEREF_PATTERN(s) == \E id \in RefIds : s = Ref(id)
NodeRefId(s) == CHOOSE id \in RefIds : s = Ref(id)

\* nodeIndex = new Map(); nodeIndex.set(node.id, node) in document order:
\* the keys, and the node a key maps to (the last one set).
nodeIndexHas(nodes, id) == \E i \in DOMAIN nodes : nodes[i].id = id
nodeIndexGet(nodes, id) ==
  nodes[CHOOSE i \in DOMAIN nodes :
          /\ nodes[i].id = id
          /\ \A j \in DOMAIN nodes : nodes[j].id = id => j <= i]

\* node?.children as the sequence the `for of` iterates (absent: nothing)
childrenOf(nodes, id) ==
  IF nodeIndexHas(nodes, id) /\ nodeIndexGet(nodes, id).children.tag = "arr"
  THEN nodeIndexGet(nodes, id).children.items
  ELSE <<>>

\* a finding that names only the node at which the cycle closed
CircularError_last(cycle) ==
  [Err("CIRCULAR_CHILDREN", 2, "hard", "domain.nodes") EXCEPT !.cycle = << cycle[Len(cycle)] >>]

CircularError(cycle) ==
  [Err("CIRCULAR_CHILDREN", 2, "hard", "domain.nodes") EXCEPT !.cycle = cycle]

\* dfs(nodeId, path) of detectCircularChildren.  st carries the closure's
\* visited, recursionStack and errors; the result adds the return value.
\* expanded lists, in order, the ids that got past both tests and whose
\* children were iterated.
RECURSIVE dfs(_, _, _, _)
RECURSIVE dfsChildren(_, _, _, _, _, _)
\* dfs without the visited test
dfs_unvisited(nodes, nodeId, path, st) ==
  IF nodeId \in st.recursionStack
  THEN [st EXCEPT !.errors = Append(@, CircularError(Append(path, nodeId))),
                  !.ret = TRUE]
  ELSE dfsChildren(nodes, nodeId, path, childrenOf(nodes, nodeId), 1,
                   [st EXCEPT !.visited = @ \cup {nodeId},
                              !.recursionStack = @ \cup {nodeId},
                              !.expanded = Append(@, nodeId)])

dfs(nodes, nodeId, path, st) ==
  IF nodeId \in st.recursionStack
  THEN [st EXCEPT !.errors = Append(@, CircularError(Append(path, nodeId))),
                  !.ret = TRUE]
  ELSE IF nodeId \in st.visited
  THEN [st EXCEPT !.ret = FALSE]
  ELSE dfsChildren(nodes, nodeId, path, childrenOf(nodes, nodeId), 1,
                   [st EXCEPT !.visited = @ \cup {nodeId},
                              !.recursionStack = @ \cup {nodeId},
                              !.expanded = Append(@, nodeId)])

\* the `for (const child of node.children)` loop of dfs from its k-th entry,
\* followed by recursionStack.delete(nodeId); return false
dfsChildren(nodes, nodeId, path, children, k, st) ==
  IF k > Len(children)
  THEN [st EXCEPT !.recursionStack = @ \ {nodeId}, !.ret = FALSE]
  ELSE IF IsString(children[k]) /\ NODEREF_PATTERN(children[k])
  THEN LET r == dfs(nodes, NodeRefId(children[k]), Append(path, nodeId), st)
       IN IF r.ret
          THEN r   \* return true: recursionStack keeps nodeId
          ELSE dfsChildren(nodes, nodeId, path, children, k + 1, r)
  ELSE dfsChildren(nodes, nodeId, path, children, k + 1, st)

\* the root loop `for (const node of nodes) if (!visited.has(node.id)) dfs(...)`
RECURSIVE dfsRoots(_, _, _)
dfsRoots(nodes, i, st) ==
  IF i > Len(nodes) THEN st
  ELSE IF nodes[i].id \in st.visited
  THEN dfsRoots(nodes, i + 1, st)
  ELSE dfsRoots(nodes, i + 1, dfs(nodes, nodes[i].id, <<>>, st))

\* the closure's state when the root loop is over
traversal(nodes) ==
  dfsRoots(nodes, 1, [visited |-> {}, recursionStack |-> {}, errors |-> <<>>,
                      expanded |-> <<>>, ret |-> FALSE])

detectCircularChildren(nodes) == traversal(nodes).errors

\* the errors of one children entry
childRefErrors(nodes, child, location) ==
  IF ~IsString(child) THEN <<>>
  ELSE IF NODEREF_PATTERN(child)
  THEN IF ~nodeIndexHas(nodes, NodeRefId(child))
       THEN << Err("UNRESOLVED_NODEREF", 2, "hard", location) >>
       ELSE <<>>
  ELSE << Err("UNRESOLVED_NODEREF", 2, "hard", location) >>

childrenErrors(nodes) ==
  Flatten([i \in DOMAIN nodes |->
    IF nodes[i].children.tag # "arr" THEN <<>>
    ELSE Flatten([c \in DOMAIN nodes[i].children.items |->
           childRefErrors(nodes, nodes[i].children.items[c],
             "domain.nodes[" \o Idx(i) \o "].children[" \o Idx(c) \o "]")])])

rootErrors(nodes, rootRef) ==
  IF ~NODEREF_PATTERN(rootRef)
  THEN << Err("UNRESOLVED_ROOT", 2, "hard", "structure.root") >>
  ELSE IF ~nodeIndexHas(nodes, NodeRefId(rootRef))
  THEN << Err("UNRESOLVED_ROOT", 2, "hard", "structure.root") >>
  ELSE IF nodeIndexGet(nodes, NodeRefId(rootRef)).kind # "System"
  THEN << Err("INVALID_ROOT_KIND", 2, "hard", "structure.root") >>
  ELSE <<>>

scenarioRefErrors(nodes, scenarios) ==
  Flatten([i \in DOMAIN scenarios |->
    IF NODEREF_PATTERN(scenarios[i]) /\ ~nodeIndexHas(nodes, NodeRefId(scenarios[i]))
    THEN << Err("UNRESOLVED_NODEREF", 2, "hard", "tests.scenarios[" \o Idx(i) \o "]") >>
    ELSE <<>>])

\* The property reads of validateReferential that throw a TypeError.
referentialThrows(s) ==
  \/ s.tag # "obj"
  \/ s.domain.tag # "obj"
  \/ s.domain.nodes.tag # "arr"             \* for..of over a non-iterable
  \/ \E i \in DOMAIN s.domain.nodes.items : s.domain.nodes.items[i].tag # "obj"
  \/ s.structure.tag # "obj"
  \/ \E i \in DOMAIN s.domain.nodes.items :
       s.domain.nodes.items[i].children.tag = "obj"   \* .forEach is not a function
  \/ s.tests.tag = "null"
  \/ (s.tests.tag = "obj" /\ s.tests.scenarios.tag = "obj")

validateReferential(s) ==
  IF referentialThrows(s) THEN Thrown
  ELSE LET nodes == s.domain.nodes.items IN
    Returned(rootErrors(nodes, s.structure.root)
             \o childrenErrors(nodes)
             \o detectCircularChildren(nodes)
             \o (IF s.tests.tag = "obj" /\ s.tests.scenarios.tag = "arr"
                 THEN scenarioRefErrors(nodes, s.tests.scenarios.items)
                 ELSE <<>>))

(***************************************************************************)
(* Phase 3: semantic                                                       *)
(***************************************************************************)
\* Shapes of a payload value: "undef" (absent), "arr" (a non-empty array),
\* "arr0" (the empty array), "obj", "str".
IsArray(shape) == shape \in {"arr", "arr0"}
IsObject(shape) == shape \in {"arr", "arr0", "obj"}     \* truthy and typeof 'object'

RefType(id) == "ref(" \o id \o ")"
\* typeStr.match(/^ref\(([^)]+)\)$/) and its captured group
refMatch(t) == \E id \in RefIds : t = RefType(id)
refMatchId(t) == CHOOSE id \in RefIds : t = RefType(id)

idsOfKind(nodes, kind) == {nodes[i].id : i \in {k \in DOMAIN nodes : nodes[k].kind = kind}}

SemErr(code, location) == Err(code, 3, "hard", location)

\* a ref(x) type resolved against the ids of all nodes instead of entityIds
fieldErrors_anyId(nodes, f, location) ==
  IF f.def.tag # "obj" \/ Falsy(f.def.type)
  THEN << SemErr("FIELD_MISSING_TYPE", location \o ".spec.fields." \o f.name) >>
  ELSE IF refMatch(f.def.type) /\ ~nodeIndexHas(nodes, refMatchId(f.def.type))
  THEN << SemErr("UNRESOLVED_REF_TYPE", location \o ".spec.fields." \o f.name \o ".type") >>
  ELSE <<>>

\* the errors of one entry of Object.entries(fields)
fieldErrors(nodes, f, location) ==
  IF f.def.tag # "obj" \/ Falsy(f.def.type)
  THEN << SemErr("FIELD_MISSING_TYPE", location \o ".spec.fields." \o f.name) >>
  ELSE IF refMatch(f.def.type) /\ refMatchId(f.def.type) \notin idsOfKind(nodes, "Entity")
  THEN << SemErr("UNRESOLVED_REF_TYPE", location \o ".spec.fields." \o f.name \o ".type") >>
  ELSE <<>>

validateEntity(nodes, node, location) ==
  IF ~IsObject(node.spec.fields.tag)
  THEN << SemErr("ENTITY_MISSING_FIELDS", location \o ".spec") >>
  ELSE Flatten([k \in DOMAIN node.spec.fields.items |->
                  fieldErrors(nodes, node.spec.fields.items[k], location)])

\* typeStr.match is not a function when a field's type is truthy but not a string
validateEntityThrows(node) ==
  /\ IsObject(node.spec.fields.tag)
  /\ \E k \in DOMAIN node.spec.fields.items :
       LET d == node.spec.fields.items[k].def
       IN d.tag = "obj" /\ ~Falsy(d.type) /\ ~IsString(d.type)

effectErrors(entries, known, code, location) ==
  Flatten([e \in DOMAIN entries |->
    IF entries[e] \notin known
    THEN << SemErr(code, location \o "[" \o Idx(e) \o "]") >>
    ELSE <<>>])

\* effects resolved against the ids of all nodes instead of the Event and
\* Entity indices
validateCommand_anyId(nodes, node, location) ==
  (IF ~IsObject(node.spec.input)
   THEN << SemErr("COMMAND_MISSING_INPUT", location \o ".spec") >>
   ELSE <<>>)
  \o
  (IF IsObject(node.spec.effects.tag)
   THEN (IF IsArray(node.spec.effects.emits.tag)
         THEN effectErrors(node.spec.effects.emits.items,
                           {nodes[i].id : i \in DOMAIN nodes},
                           "UNRESOLVED_EFFECT_EVENT", location \o ".spec.effects.emits")
         ELSE <<>>)
        \o
        (IF IsArray(node.spec.effects.modifies.tag)
         THEN effectErrors(node.spec.effects.modifies.items,
                           {nodes[i].id : i \in DOMAIN nodes},
                           "UNRESOLVED_EFFECT_ENTITY", location \o ".spec.effects.modifies")
         ELSE <<>>)
   ELSE <<>>)

validateCommand(nodes, node, location) ==
  (IF ~IsObject(node.spec.input)
   THEN << SemErr("COMMAND_MISSING_INPUT", location \o ".spec") >>
   ELSE <<>>)
  \o
  (IF IsObject(node.spec.effects.tag)
   THEN (IF IsArray(node.spec.effects.emits.tag)
         THEN effectErrors(node.spec.effects.emits.items, idsOfKind(nodes, "Event"),
                           "UNRESOLVED_EFFECT_EVENT", location \o ".spec.effects.emits")
         ELSE <<>>)
        \o
        (IF IsArray(node.spec.effects.modifies.tag)
         THEN effectErrors(node.spec.effects.modifies.items, idsOfKind(nodes, "Entity"),
                           "UNRESOLVED_EFFECT_ENTITY", location \o ".spec.effects.modifies")
         ELSE <<>>)
   ELSE <<>>)

processChildErrors(nodes, child, location) ==
  IF /\ IsString(child)
     /\ NODEREF_PATTERN(child)
     /\ nodeIndexHas(nodes, NodeRefId(child))
     /\ nodeIndexGet(nodes, NodeRefId(child)).kind # "Step"
  THEN << SemErr("INVALID_PROCESS_CHILDREN", location) >>
  ELSE <<>>

validateProcess(nodes, node, location) ==
  (IF Falsy(node.spec.trigger)
   THEN << SemErr("PROCESS_MISSING_TRIGGER", location \o ".spec") >>
   ELSE IF node.spec.trigger \notin (idsOfKind(nodes, "Command") \cup idsOfKind(nodes, "Event"))
        THEN << SemErr("INVALID_PROCESS_TRIGGER", location \o ".spec.trigger") >>
        ELSE <<>>)
  \o
  (IF node.children.tag = "arr"
   THEN Flatten([c \in DOMAIN node.children.items |->
          processChildErrors(nodes, node.children.items[c],
                             location \o ".children[" \o Idx(c) \o "]")])
   ELSE <<>>)

validateScenario(node, location) ==
  (IF ~IsArray(node.spec.given)
   THEN << SemErr("SCENARIO_MISSING_GIVEN", location \o ".spec") >> ELSE <<>>)
  \o
  (IF ~IsArray(node.spec.when.tag)
   THEN << SemErr("SCENARIO_MISSING_WHEN", location \o ".spec") >> ELSE <<>>)
  \o
  (IF ~IsArray(node.spec.then)
   THEN << SemErr("SCENARIO_MISSING_THEN", location \o ".spec") >> ELSE <<>>)

\* the `switch (node.kind)` of validateNodeSemantic
kindErrors(nodes, node, location) ==
  CASE node.kind = "System" ->
         IF ~IsArray(node.spec.goals)
         THEN << SemErr("SEMANTIC_ERROR", location \o ".spec") >> ELSE <<>>
    [] node.kind = "Entity" -> validateEntity(nodes, node, location)
    [] node.kind = "Enum" ->
         IF ~IsArray(node.spec.values)
         THEN << SemErr("SEMANTIC_ERROR", location \o ".spec") >> ELSE <<>>
    [] node.kind = "Command" -> validateCommand(nodes, node, location)
    [] node.kind = "Event" ->
         IF ~IsObject(node.spec.payload)
         THEN << SemErr("EVENT_MISSING_PAYLOAD", location \o ".spec") >> ELSE <<>>
    [] node.kind = "Query" ->
         (IF ~IsObject(node.spec.input)
          THEN << SemErr("QUERY_MISSING_INPUT", location \o ".spec") >> ELSE <<>>)
         \o
         (IF ~IsObject(node.spec.output)
          THEN << SemErr("QUERY_MISSING_OUTPUT", location \o ".spec") >> ELSE <<>>)
    [] node.kind = "Process" -> validateProcess(nodes, node, location)
    [] node.kind = "Step" ->
         IF Falsy(node.spec.action) \/ ~IsString(node.spec.action)
         THEN << SemErr("SEMANTIC_ERROR", location \o ".spec") >> ELSE <<>>
    [] node.kind = "Scenario" -> validateScenario(node, location)
    [] OTHER -> <<>>

SwitchKinds == {"System", "Entity", "Enum", "Command", "Event", "Query",
                "Process", "Step", "Scenario"}

\* The switch reads a property of node.spec (throws when spec is null or
\* absent), Entity calls typeStr.match, Process calls node.children.forEach.
kindThrows(node) ==
  /\ node.kind \in SwitchKinds
  /\ \/ node.spec.tag \in {"absent", "null"}
     \/ node.kind = "Entity" /\ validateEntityThrows(node)
     \/ node.kind = "Process" /\ node.children.tag = "obj"

\* The contracts loop: how many clauses it handles before it throws
\* (a null clause, or contracts that is not an array), Len + 1 if it does not.
contractsDone(node) ==
  IF node.contracts.tag \in {"absent", "null"} THEN 0
  ELSE IF node.contracts.tag # "arr" THEN 0
  ELSE LET nulls == {c \in DOMAIN node.contracts.items :
                       node.contracts.items[c].tag # "obj"}
       IN IF nulls = {} THEN Len(node.contracts.items)
          ELSE (CHOOSE c \in nulls : \A d \in nulls : c <= d) - 1

contractsThrow(node) ==
  \/ node.contracts.tag \notin {"absent", "null", "arr"}
  \/ /\ node.contracts.tag = "arr"
     /\ \E c \in DOMAIN node.contracts.items : node.contracts.items[c].tag # "obj"

contractErrors(node, location) ==
  IF node.contracts.tag # "arr" THEN <<>>
  ELSE Flatten([c \in DOMAIN node.contracts.items |->
         LET k == node.contracts.items[c] IN
         IF Falsy(k.type) /\ Falsy(k.invariant) /\ Falsy(k.temporal) /\ Falsy(k.rule)
         THEN << SemErr("INVALID_CONTRACT", location \o ".contracts[" \o Idx(c) \o "]") >>
         ELSE <<>>])

validateNodeSemantic(nodes, node, location) ==
  kindErrors(nodes, node, location) \o contractErrors(node, location)

nodeSemanticThrows(node) == kindThrows(node) \/ contractsThrow(node)

\* `if (!contract.level) contract.level = 'hard'` on the first n clauses
defaultLevels(node, n) ==
  IF node.contracts.tag # "arr" THEN node
  ELSE [node EXCEPT !.contracts.items =
          [c \in DOMAIN @ |-> IF c <= n /\ Falsy(@[c].level)
                              THEN [@[c] EXCEPT !.level = "hard"] ELSE @[c]]]

\* validateSemantic cannot build its indices
semanticIndexThrows(s) ==
  \/ s.tag # "obj"
  \/ s.domain.tag # "obj"
  \/ s.domain.nodes.tag # "arr"
  \/ \E i \in DOMAIN s.domain.nodes.items : s.domain.nodes.items[i].tag # "obj"

\* index of the first node whose validation throws, 0 if none
firstSemanticThrow(nodes) ==
  LET bad == {i \in DOMAIN nodes : nodeSemanticThrows(nodes[i])}
  IN IF bad = {} THEN 0 ELSE CHOOSE i \in bad : \A j \in bad : i <= j

validateSemantic(s) ==
  IF semanticIndexThrows(s) \/ firstSemanticThrow(s.domain.nodes.items) # 0
  THEN Thrown
  ELSE LET nodes == s.domain.nodes.items IN
       Returned(Flatten([i \in DOMAIN nodes |->
         validateNodeSemantic(nodes, nodes[i], "domain.nodes[" \o Idx(i) \o "]")]))

\* The document as validateSemantic leaves it: the clauses it reached before
\* returning or throwing have their level defaulted.
semanticEffect(s) ==
  IF semanticIndexThrows(s) THEN s
  ELSE LET nodes == s.domain.nodes.items
           t == firstSemanticThrow(nodes)
       IN [s EXCEPT !.domain.nodes.items =
            [i \in DOMAIN nodes |->
               IF t = 0 \/ i < t THEN defaultLevels(nodes[i], Len(nodes[i].contracts.items))
               ELSE IF i = t /\ ~kindThrows(nodes[i])
                    THEN defaultLevels(nodes[i], contractsDone(nodes[i]))
                    ELSE nodes[i]]]

(***************************************************************************)
(* Phase 4: evolution                                                      *)
(***************************************************************************)
EvoErr(code, location) == Err(code, 4, "hard", location)

MIGRATION_KINDS == {"data", "schema", "process"}
breakingOps == {"remove-field", "rename-field", "type-change", "remove-node", "rename-node"}

\* String.prototype.includes on the strings of the model: migration ids
\* against change targets and field names.  The empty string is included in
\* every string; an undefined argument is searched as "undefined".
Includes(hay, needle) ==
  \/ needle = ""
  \/ hay = needle
  \/ <<hay, needle>> \in {<<"mig.a.y", "a">>, <<"mig.a.y", "y">>,
                          <<"mig.a", "a">>, <<"mig.y", "y">>}

\* change.field || ''
fieldOrEmpty(change) == IF Falsy(change.field) THEN "" ELSE change.field

migrationMatches(m, change) ==
  /\ m.tag = "obj" /\ IsString(m.id)
  /\ Includes(m.id, change.target) \/ Includes(m.id, fieldOrEmpty(change))

\* entry.migrations?.some(m => m.id.includes(...)) throws when it reaches a
\* migration that is null or whose id is not a string before one that matches.
someThrows(migrations, change) ==
  \E j \in DOMAIN migrations :
    /\ migrations[j].tag # "obj" \/ ~IsString(migrations[j].id)
    /\ \A i \in 1..(j - 1) : ~migrationMatches(migrations[i], change)

needsMigration(change) ==
  \/ change.op \in breakingOps
  \/ change.op = "add-field" /\ change.required = TRUE

noMigrations(entry) ==
  entry.migrations.tag # "arr" \/ Len(entry.migrations.items) = 0

migrationErrors(m, mLocation) ==
  (IF Falsy(m.id) THEN << EvoErr("MIGRATION_MISSING_ID", mLocation) >> ELSE <<>>)
  \o
  (IF Falsy(m.kind) THEN << EvoErr("MIGRATION_MISSING_KIND", mLocation) >>
   ELSE IF m.kind \notin MIGRATION_KINDS
        THEN << EvoErr("INVALID_MIGRATION_KIND", mLocation \o ".kind") >>
        ELSE <<>>)
  \o
  (IF ~IsArray(m.steps) THEN << EvoErr("MIGRATION_MISSING_STEPS", mLocation) >> ELSE <<>>)

\* a required migration counted as present only when a migration's id names
\* the change's target or field
changeErrors_matching(entry, change, location) ==
  IF /\ needsMigration(change)
     /\ ~\E m \in DOMAIN entry.migrations.items :
           migrationMatches(entry.migrations.items[m], change)
  THEN << EvoErr("MISSING_MIGRATION", location) >>
  ELSE <<>>

changeErrors(entry, change, location) ==
  IF needsMigration(change) /\ noMigrations(entry)
  THEN << EvoErr("MISSING_MIGRATION", location) >>
  ELSE <<>>

entryErrors(entry, index) ==
  (IF entry.migrations.tag = "arr"
   THEN Flatten([m \in DOMAIN entry.migrations.items |->
          migrationErrors(entry.migrations.items[m],
            "history[" \o Idx(index) \o "].migrations[" \o Idx(m) \o "]")])
   ELSE <<>>)
  \o
  (IF entry.changes.tag = "arr"
   THEN Flatten([c \in DOMAIN entry.changes.items |->
          changeErrors(entry, entry.changes.items[c],
            "history[" \o Idx(index) \o "].changes[" \o Idx(c) \o "]")])
   ELSE <<>>)

entryThrows(entry) ==
  \/ entry.migrations.tag = "obj"          \* forEach is not a function
  \/ /\ entry.migrations.tag = "arr"
     /\ \E m \in DOMAIN entry.migrations.items : entry.migrations.items[m].tag # "obj"
  \/ entry.changes.tag = "obj"
  \/ /\ entry.changes.tag = "arr"
     /\ \E c \in DOMAIN entry.changes.items :
          \/ entry.changes.items[c].tag # "obj"
          \/ /\ needsMigration(entry.changes.items[c])
             /\ entry.migrations.tag = "arr"
             /\ someThrows(entry.migrations.items, entry.changes.items[c])

historyIsEmpty(s) ==
  \/ s.history.tag \in {"absent", "null"}
  \/ s.history.tag = "arr" /\ Len(s.history.items) = 0

evolutionThrows(s) ==
  \/ s.tag # "obj"
  \/ /\ ~historyIsEmpty(s)
     /\ \/ s.history.tag # "arr"            \* history[0] is undefined
        \/ \E i \in DOMAIN s.history.items : s.history.items[i].tag # "obj"
        \/ s.project.tag # "obj"
        \/ s.project.versioning.tag # "obj"
        \/ \E i \in DOMAIN s.history.items : entryThrows(s.history.items[i])

\* every entry compared with the first entry instead of the one before it
chainErrors_first(history) ==
  Flatten([i \in DOMAIN history |->
    IF i > 1 /\ history[i].basedOn # history[1].version
    THEN << EvoErr("BROKEN_HISTORY_CHAIN", "history[" \o Idx(i) \o "].basedOn") >>
    ELSE <<>>])

chainErrors(history) ==
  Flatten([i \in DOMAIN history |->
    IF i > 1 /\ history[i].basedOn # history[i - 1].version
    THEN << EvoErr("BROKEN_HISTORY_CHAIN", "history[" \o Idx(i) \o "].basedOn") >>
    ELSE <<>>])

validateEvolution(s) ==
  IF evolutionThrows(s) THEN Thrown
  ELSE IF historyIsEmpty(s) THEN Returned(<<>>)
  ELSE LET history == s.history.items IN
    Returned(
      (IF history[1].basedOn # NULLV
       THEN << EvoErr("INVALID_HISTORY_START", "history[0].basedOn") >> ELSE <<>>)
      \o chainErrors(history)
      \o (IF s.project.versioning.current # history[Len(history)].version
          THEN << EvoErr("VERSION_MISMATCH", "project.versioning.current") >> ELSE <<>>)
      \o Flatten([i \in DOMAIN history |-> entryErrors(history[i], i)]))

(***************************************************************************)
(* Phase 5: generation safety                                              *)
(***************************************************************************)
\* File paths and zone globs are sequences of one-character strings, so that
\* the glob translation can be computed; <<UNDEF>> is the value undefined
\* and <<>> the empty string.
PathFalsy(p) == p = <<>> \/ p = <<UNDEF>>
PathIsString(p) == p # <<UNDEF>> /\ p # <<NUMV>>

GenErr(code, location) == Err(code, 5, "hard", location)

ZONE_MODES == {"overwrite", "anchored", "preserve", "spec-controlled"}

\* .replace(/\\/g, '/')
normalizeSlashes(p) == [i \in DOMAIN p |-> IF p[i] = "\\" THEN "/" ELSE p[i]]

\* The regular expression matchesGlob builds from a pattern, as a sequence
\* of tokens: "**" becomes "ANY" (.*), a remaining "*" becomes "SEG" ([^/]*),
\* "." stays the regex dot "DOT", every other character matches itself.
RECURSIVE globTokens(_)
globTokens(p) ==
  IF p = <<>> THEN <<>>
  ELSE IF Len(p) >= 2 /\ p[1] = "*" /\ p[2] = "*"
  THEN <<"ANY">> \o globTokens(SubSeq(p, 3, Len(p)))
  ELSE IF p[1] = "*" THEN <<"SEG">> \o globTokens(Tail(p))
  ELSE IF p[1] = "." THEN <<"DOT">> \o globTokens(Tail(p))
  ELSE <<p[1]>> \o globTokens(Tail(p))

\* new RegExp(`^${regexPattern}$`).test(path) from token t and position j
RECURSIVE regexTest(_, _, _, _)
regexTest(toks, t, path, j) ==
  IF t > Len(toks) THEN j > Len(path)
  ELSE IF toks[t] = "ANY"
  THEN \E k \in j..(Len(path) + 1) : regexTest(toks, t + 1, path, k)
  ELSE IF toks[t] = "SEG"
  THEN \E k \in j..(Len(path) + 1) :
         /\ \A i \in j..(k - 1) : path[i] # "/"
         /\ regexTest(toks, t + 1, path, k)
  ELSE IF toks[t] = "DOT"
  THEN j <= Len(path) /\ regexTest(toks, t + 1, path, j + 1)
  ELSE j <= Len(path) /\ path[j] = toks[t] /\ regexTest(toks, t + 1, path, j + 1)

matchesGlob(path, pattern) ==
  regexTest(globTokens(normalizeSlashes(pattern)), 1, normalizeSlashes(path), 1)

\* overlap decided by matching the zone's path against the earlier globs
zoneErrors_glob(zones, index) ==
  LET zone == zones[index]
      location == "generation.zones[" \o Idx(index) \o "]"
      earlier == {k \in 1..(index - 1) : PathIsString(zones[k].path)}
  IN
  (IF PathFalsy(zone.path) THEN << GenErr("GENERATION_ERROR", location) >> ELSE <<>>)
  \o
  (IF Falsy(zone.mode) THEN << GenErr("GENERATION_ERROR", location) >>
   ELSE IF zone.mode \notin ZONE_MODES
        THEN << GenErr("GENERATION_ERROR", location \o ".mode") >>
        ELSE <<>>)
  \o
  (IF ~PathFalsy(zone.path) /\ \E k \in earlier : matchesGlob(zone.path, zones[k].path)
   THEN << GenErr("OVERLAPPING_ZONES", location) >> ELSE <<>>)

zoneErrors(zones, index) ==
  LET zone == zones[index]
      location == "generation.zones[" \o Idx(index) \o "]"
      seenPaths == {zones[j].path : j \in {k \in 1..(index - 1) : ~PathFalsy(zones[k].path)}}
  IN
  (IF PathFalsy(zone.path) THEN << GenErr("GENERATION_ERROR", location) >> ELSE <<>>)
  \o
  (IF Falsy(zone.mode) THEN << GenErr("GENERATION_ERROR", location) >>
   ELSE IF zone.mode \notin ZONE_MODES
        THEN << GenErr("GENERATION_ERROR", location \o ".mode") >>
        ELSE <<>>)
  \o
  (IF ~PathFalsy(zone.path) /\ zone.path \in seenPaths
   THEN << GenErr("OVERLAPPING_ZONES", location) >> ELSE <<>>)

validateZones(zones) == Flatten([i \in DOMAIN zones |-> zoneErrors(zones, i)])

\* zones.filter(z => z.mode === 'overwrite').map(z => z.path)
overwriteZones(zones) ==
  LET IsOverwrite(z) == z.mode = "overwrite"
      ow == SelectSeq(zones, IsOverwrite)
  IN [i \in DOMAIN ow |-> ow[i].path]

inOverwriteZone(file, owPaths) ==
  \E i \in DOMAIN owPaths : PathIsString(owPaths[i]) /\ matchesGlob(file, owPaths[i])

\* the loop over overwriteZones calls pattern.replace on a path that is not
\* a string before any zone has matched, or path.replace on such a file
overwriteLoopThrows(file, owPaths) ==
  /\ ~PathFalsy(file)
  /\ owPaths # <<>>
  /\ \/ ~PathIsString(file)
     \/ \E j \in DOMAIN owPaths :
          /\ ~PathIsString(owPaths[j])
          /\ \A i \in 1..(j - 1) : PathIsString(owPaths[i]) /\ ~matchesGlob(file, owPaths[i])

hookErrors(hooks, index, owPaths) ==
  LET hook == hooks[index]
      location == "generation.hooks[" \o Idx(index) \o "]"
      seenHookIds == {hooks[j].id : j \in {k \in 1..(index - 1) : ~Falsy(hooks[k].id)}}
  IN
  (IF Falsy(hook.id) THEN << GenErr("GENERATION_ERROR", location) >>
   ELSE IF hook.id \in seenHookIds
        THEN << GenErr("DUPLICATE_HOOK_ID", location) >>
        ELSE <<>>)
  \o
  (IF hook.location.tag # "obj" THEN << GenErr("GENERATION_ERROR", location) >>
   ELSE
     (IF PathFalsy(hook.location.file)
      THEN << GenErr("GENERATION_ERROR", location \o ".location") >> ELSE <<>>)
     \o
     (IF Falsy(hook.location.anchorStart) \/ Falsy(hook.location.anchorEnd)
      THEN << GenErr("INVALID_HOOK_ANCHORS", location \o ".location") >>
      ELSE IF hook.location.anchorStart = hook.location.anchorEnd
           THEN << GenErr("INVALID_HOOK_ANCHORS", location \o ".location") >>
           ELSE <<>>)
     \o
     (IF ~PathFalsy(hook.location.file) /\ inOverwriteZone(hook.location.file, owPaths)
      THEN << GenErr("HOOK_IN_OVERWRITE", location \o ".location.file") >>
      ELSE <<>>))

validateHooks(hooks, zones) ==
  Flatten([i \in DOMAIN hooks |-> hookErrors(hooks, i, overwriteZones(zones))])

\* gen.zones || []
zonesOrEmpty(gen) == IF gen.zones.tag = "arr" THEN gen.zones.items ELSE <<>>

generationThrows(s) ==
  \/ s.tag # "obj"
  \/ /\ s.generation.tag = "obj"
     /\ \/ s.generation.zones.tag = "obj"      \* forEach is not a function
        \/ /\ s.generation.zones.tag = "arr"
           /\ \E i \in DOMAIN s.generation.zones.items :
                s.generation.zones.items[i].tag # "obj"
        \/ s.generation.hooks.tag = "obj"
        \/ /\ s.generation.hooks.tag = "arr"
           /\ \E i \in DOMAIN s.generation.hooks.items :
                LET h == s.generation.hooks.items[i] IN
                \/ h.tag # "obj"
                \/ /\ h.location.tag = "obj"
                   /\ overwriteLoopThrows(h.location.file,
                                          overwriteZones(zonesOrEmpty(s.generation)))

validateGeneration(s) ==
  IF generationThrows(s) THEN Thrown
  ELSE IF s.generation.tag # "obj" THEN Returned(<<>>)
  ELSE Returned(
    (IF s.generation.zones.tag = "arr"
     THEN validateZones(s.generation.zones.items) ELSE <<>>)
    \o
    (IF s.generation.hooks.tag = "arr"
     THEN validateHooks(s.generation.hooks.items, zonesOrEmpty(s.generation)) ELSE <<>>))

(***************************************************************************)
(* Phase 6: verifiability                                                  *)
(***************************************************************************)
\* !p.cmd || p.cmd.trim() === ''  ("  " stands for a blank command)
cmdEmpty(cmd) == Falsy(cmd) \/ cmd = "  "

pipelineErrors(p, name, missingCode) ==
  IF p.tag # "obj"
  THEN << Err(missingCode, 6, "hard", "generation.pipelines") >>
  ELSE IF cmdEmpty(p.cmd)
  THEN << Err("EMPTY_PIPELINE_CMD", 6, "hard", "generation.pipelines." \o name \o ".cmd") >>
  ELSE <<>>

\* pipelines looked for in every generation section, declared or not
hasPipelines_generation(s) == s.generation.tag = "obj"

hasPipelines(s) == s.generation.tag = "obj" /\ s.generation.pipelines.tag = "obj"

\* coveredCommands: the command.id of every `when` action of every Scenario
coveredCommands(nodes) ==
  UNION {
    IF nodes[i].kind = "Scenario" /\ IsArray(nodes[i].spec.when.tag)
    THEN {nodes[i].spec.when.items[a].command.id :
            a \in {b \in DOMAIN nodes[i].spec.when.items :
                     /\ nodes[i].spec.when.items[b].command.tag = "obj"
                     /\ ~Falsy(nodes[i].spec.when.items[b].command.id)}}
    ELSE {}
    : i \in DOMAIN nodes}

coverageErrors(nodes) ==
  Flatten([i \in DOMAIN nodes |->
    IF nodes[i].kind = "Command" /\ nodes[i].id \notin coveredCommands(nodes)
    THEN << Err("LOW_SCENARIO_COVERAGE", 6, "soft", "domain.nodes") >>
    ELSE <<>>])

verifiabilityThrows(s) ==
  \/ s.tag # "obj"
  \/ /\ hasPipelines(s)
     /\ \E p \in {s.generation.pipelines.build, s.generation.pipelines.test,
                  s.generation.pipelines.migrate} :
          p.tag = "obj" /\ ~Falsy(p.cmd) /\ ~IsString(p.cmd)   \* cmd.trim
  \/ s.domain.tag # "obj"
  \/ s.domain.nodes.tag # "arr"
  \/ \E i \in DOMAIN s.domain.nodes.items :
       LET n == s.domain.nodes.items[i] IN
       \/ n.tag # "obj"
       \/ /\ n.kind = "Scenario"
          /\ \/ n.spec.tag \in {"absent", "null"}
             \/ /\ IsArray(n.spec.when.tag)
                /\ \E a \in DOMAIN n.spec.when.items : n.spec.when.items[a].tag # "obj"

\* scenario coverage checked only when pipelines are declared
validateVerifiability_gated(s) ==
  IF verifiabilityThrows(s) THEN Thrown
  ELSE Returned(
    IF hasPipelines(s)
    THEN pipelineErrors(s.generation.pipelines.build, "build", "MISSING_BUILD_PIPELINE")
         \o pipelineErrors(s.generation.pipelines.test, "test", "MISSING_TEST_PIPELINE")
         \o pipelineErrors(s.generation.pipelines.migrate, "migrate", "MISSING_MIGRATE_PIPELINE")
         \o coverageErrors(s.domain.nodes.items)
    ELSE <<>>)

validateVerifiability(s) ==
  IF verifiabilityThrows(s) THEN Thrown
  ELSE Returned(
    (IF hasPipelines(s)
     THEN pipelineErrors(s.generation.pipelines.build, "build", "MISSING_BUILD_PIPELINE")
          \o pipelineErrors(s.generation.pipelines.test, "test", "MISSING_TEST_PIPELINE")
          \o pipelineErrors(s.generation.pipelines.migrate, "migrate", "MISSING_MIGRATE_PIPELINE")
     ELSE <<>>)
    \o coverageErrors(s.domain.nodes.items))

(***************************************************************************)
(* Documents                                                               *)
(***************************************************************************)
NoList == [tag |-> "absent", items |-> <<>>]
List(items) == [tag |-> "arr", items |-> items]

EmptySpec ==
  [tag |-> "obj", goals |-> "undef", values |-> "undef", fields |-> NoList,
   input |-> "undef", output |-> "undef", payload |-> "undef",
   trigger |-> UNDEF, action |-> UNDEF, given |-> "undef", when |-> NoList,
   then |-> "undef",
   effects |-> [tag |-> "undef", emits |-> NoList, modifies |-> NoList]]

Node(kind, id, spec) ==
  [tag |-> "obj", kind |-> kind, id |-> id, spec |-> spec,
   children |-> NoList, contracts |-> NoList]

NullNode == [Node(UNDEF, UNDEF, [EmptySpec EXCEPT !.tag = "absent"]) EXCEPT !.tag = "null"]

SystemNode(id) == Node("System", id, [EmptySpec EXCEPT !.goals = "arr"])
ModuleNode(id) == Node("Module", id, EmptySpec)

Clause(level, rule) ==
  [tag |-> "obj", level |-> level, type |-> UNDEF, invariant |-> UNDEF,
   temporal |-> UNDEF, rule |-> rule]

NoPipeline == [tag |-> "absent", cmd |-> UNDEF]
Pipeline(cmd) == [tag |-> "obj", cmd |-> cmd]

NoGeneration ==
  [tag |-> "absent", zones |-> NoList, hooks |-> NoList,
   pipelines |-> [tag |-> "absent", build |-> NoPipeline, test |-> NoPipeline,
                  migrate |-> NoPipeline]]

Versioning(strategy, current) ==
  [tag |-> "obj", strategy |-> strategy, current |-> current]
Project(id, versioning) == [tag |-> "obj", id |-> id, versioning |-> versioning]

\* the minimal valid document: one System node that structure.root names
BaseDoc ==
  [tag |-> "obj",
   spec |-> "sysconst/v1",
   project |-> Project("my.app", Versioning("semver", "1.0.0")),
   structure |-> [tag |-> "obj", root |-> Ref("a")],
   domain |-> [tag |-> "obj", nodes |-> List(<< SystemNode("a") >>)],
   tests |-> [tag |-> "absent", scenarios |-> NoList],
   history |-> NoList,
   generation |-> NoGeneration]

WithNodes(nodes) == [BaseDoc EXCEPT !.domain.nodes = List(nodes)]

Entry(version, basedOn, changes, migrations) ==
  [tag |-> "obj", version |-> version, basedOn |-> basedOn,
   changes |-> changes, migrations |-> migrations]
NullEntry == [Entry(UNDEF, UNDEF, NoList, NoList) EXCEPT !.tag = "null"]
Change(op, target, field, required) ==
  [tag |-> "obj", op |-> op, target |-> target, field |-> field, required |-> required]
Migration(id, kind, steps) == [tag |-> "obj", id |-> id, kind |-> kind, steps |-> steps]

Zone(path, mode) == [tag |-> "obj", path |-> path, mode |-> mode]
Hook(id, file, anchorStart, anchorEnd) ==
  [tag |-> "obj", id |-> id,
   location |-> [tag |-> "obj", file |-> file, anchorStart |-> anchorStart,
                 anchorEnd |-> anchorEnd]]
Generation(zones, hooks) ==
  [NoGeneration EXCEPT !.tag = "obj", !.zones = zones, !.hooks = hooks]

CommandNode(id) == Node("Command", id, [EmptySpec EXCEPT !.input = "obj"])
EntityNode(id, fields) == Node("Entity", id, [EmptySpec EXCEPT !.fields = List(fields)])
Field(name, type) == [name |-> name, def |-> [tag |-> "obj", type |-> type]]
WhenAction(id) == [tag |-> "obj", command |-> [tag |-> "obj", id |-> id]]
ScenarioNode(id, when) ==
  Node("Scenario", id,
       [EmptySpec EXCEPT !.given = "arr", !.when = List(when), !.then = "arr"])

ApiGlob == <<"a", "/", "*", "*">>
ApiFile == <<"a", "/", "b">>

(***************************************************************************)
(* Documents of the orchestrator runs: each phase independently clean or   *)
(* with findings, and the documents on which a phase throws.               *)
(***************************************************************************)
V1 == {"ok", "hard"}
V2 == {"ok", "hard"}
V3 == {"ok", "hard", "nolevel"}
V4 == {"ok", "hard"}
V5 == {"ok", "hard"}
V6 == {"ok", "soft", "hard", "both"}

PhaseDoc(v1, v2, v3, v4, v5, v6) ==
  [BaseDoc EXCEPT
     !.spec = IF v1 = "hard" THEN "other/v2" ELSE @,
     !.structure.root = IF v2 = "hard" THEN Ref("zz") ELSE @,
     !.domain.nodes.items =
        << IF v3 = "nolevel"
           THEN [SystemNode("a") EXCEPT !.contracts = List(<< Clause(UNDEF, "r") >>)]
           ELSE SystemNode("a") >>
        \o (IF v3 = "hard" THEN << Node("Enum", "b", EmptySpec) >> ELSE <<>>)
        \o (IF v6 \in {"soft", "both"} THEN << CommandNode("c") >> ELSE <<>>),
     !.history = IF v4 = "hard"
                 THEN List(<< Entry("1.0.0", "0.9.0", NoList, NoList) >>)
                 ELSE List(<< Entry("1.0.0", NULLV, NoList, NoList) >>),
     !.generation =
        [Generation(IF v5 = "hard"
                    THEN List(<< Zone(ApiGlob, "anchored"), Zone(ApiGlob, "anchored") >>)
                    ELSE List(<< Zone(ApiGlob, "anchored") >>),
                    List(<< Hook("h", ApiFile, "s", "e") >>))
         EXCEPT !.pipelines =
           IF v6 \in {"hard", "both"}
           THEN [tag |-> "obj", build |-> NoPipeline, test |-> Pipeline("t"),
                 migrate |-> Pipeline("  ")]
           ELSE @]]

PhaseDocs ==
  {PhaseDoc(v1, v2, v3, v4, v5, v6) :
     v1 \in V1, v2 \in V2, v3 \in V3, v4 \in V4, v5 \in V5, v6 \in V6}

ThrowDocs ==
  { [BaseDoc EXCEPT !.tag = "null"],
    [BaseDoc EXCEPT !.project.tag = "null"],
    [BaseDoc EXCEPT !.structure.tag = "null"],
    [BaseDoc EXCEPT !.domain.tag = "null"],
    [BaseDoc EXCEPT !.domain.nodes = NoList],
    WithNodes(<< SystemNode("a"), NullNode >>),
    WithNodes(<< [SystemNode("a") EXCEPT !.contracts = List(<< Clause(UNDEF, "r") >>)],
                 EntityNode("b", << Field("f", NUMV) >>) >>),
    WithNodes(<< SystemNode("a"), [ModuleNode("b") EXCEPT !.children.tag = "obj"] >>),
    [BaseDoc EXCEPT !.history = List(<< NullEntry >>)],
    [BaseDoc EXCEPT !.history =
       List(<< Entry("1.0.0", NULLV,
                     List(<< Change("remove-field", "a", "y", FALSE) >>),
                     List(<< Migration(UNDEF, "data", "arr") >>)) >>)],
    [BaseDoc EXCEPT !.generation =
       Generation(List(<< Zone(<<UNDEF>>, "overwrite") >>),
                  List(<< Hook("h", ApiFile, "s", "e") >>))],
    [BaseDoc EXCEPT !.generation =
       [NoGeneration EXCEPT !.tag = "obj",
          !.pipelines = [tag |-> "obj", build |-> Pipeline(NUMV),
                         test |-> Pipeline("t"), migrate |-> Pipeline("m")]]],
    WithNodes(<< SystemNode("a"),
                 ScenarioNode("b", << [WhenAction("c") EXCEPT !.tag = "null"] >>) >>) }

\* The documents of the behaviours with several calls.
RunDocs ==
  {PhaseDoc("ok", "ok", v3, "ok", "ok", v6) : v3 \in V3, v6 \in {"ok", "soft"}}
  \cup {PhaseDoc("hard", "ok", "nolevel", "ok", "ok", "ok"),
        PhaseDoc("ok", "ok", "nolevel", "hard", "ok", "both"),
        PhaseDoc("ok", "hard", "ok", "ok", "hard", "hard")}
  \cup ThrowDocs

(***************************************************************************)
(* Documents for the structural and referential phases                     *)
(***************************************************************************)
MaxNodes == 3
MaxRefs == 2

SeqsUpTo(S, n) == UNION {[1..k -> S] : k \in 0..n}

\* node sequences with repeated, missing and malformed ids and null nodes
NodeVariants ==
  { SystemNode("a"), ModuleNode("b"), NullNode, Node("Module", UNDEF, EmptySpec),
    ModuleNode("Bad!") }

NodeSeqDocs == {WithNodes(ns) : ns \in SeqsUpTo(NodeVariants, MaxNodes)}

\* the required top-level fields, each present, absent or null
TopDocs ==
  {[BaseDoc EXCEPT !.spec = sp, !.project = pr, !.structure = st, !.domain = dm] :
     sp \in {"sysconst/v1", "other/v2", UNDEF},
     pr \in {[BaseDoc.project EXCEPT !.tag = t] : t \in {"absent", "null"}}
            \cup {Project(id, v) :
                    id \in {"my.app", UNDEF},
                    v \in {[Versioning(UNDEF, UNDEF) EXCEPT !.tag = "absent"]}
                          \cup {Versioning(sg, cu) : sg \in {"semver", UNDEF},
                                                     cu \in {"1.0.0", UNDEF}}},
     st \in {[tag |-> t, root |-> UNDEF] : t \in {"absent", "null", "obj"}}
            \cup {BaseDoc.structure},
     dm \in {[tag |-> t, nodes |-> NoList] : t \in {"absent", "null", "obj"}}
            \cup {[tag |-> "obj", nodes |-> [tag |-> "obj", items |-> <<>>]],
                  BaseDoc.domain}}

\* references that resolve, name no node, or are not of the form NodeRef(id)
RefStrings == {Ref("b"), Ref("zz"), "bad", NUMV}

RefDocs ==
  {[BaseDoc EXCEPT
      !.structure.root = root,
      !.domain.nodes.items =
         << [SystemNode("a") EXCEPT !.children = List(ch)], ModuleNode("b") >>,
      !.tests = sc] :
     root \in {Ref("a"), Ref("b"), Ref("zz"), "bad"},
     ch \in SeqsUpTo(RefStrings, MaxRefs),
     sc \in {BaseDoc.tests} \cup
            {[tag |-> "obj", scenarios |-> List(<<r>>)] : r \in RefStrings}}

AllDocs == PhaseDocs \cup ThrowDocs \cup NodeSeqDocs \cup TopDocs \cup RefDocs

(***************************************************************************)
(* Documents for the sections of a document: the children graph, the node  *)
(* kinds, the history, the zones and hooks, the pipelines and scenarios.   *)
(***************************************************************************)
\* Bound on the number of entries of a history.
MaxHistory == 3

\* Bound on the number of changes of a history entry.
MaxChanges == 2

\* Bound on the number of zones of a generation section.
MaxZones == 3

\* Bound on the number of hooks of a generation section.
MaxHooks == 2

\* children graphs over the nodes a, b, c: chains, self-loops, cycles of two
\* and three nodes, a second root that leads into a cycle, references to a
\* node that is missing and entries that are no reference
CycleDocs ==
  {WithNodes(<< [SystemNode("a") EXCEPT !.children = List(ca)],
                [ModuleNode("b") EXCEPT !.children = List(cb)],
                [ModuleNode("c") EXCEPT !.children = List(cc)] >>) :
     ca \in SeqsUpTo({Ref("a"), Ref("b"), Ref("c")}, MaxRefs),
     cb \in {<<>>, << Ref("a") >>, << Ref("b") >>, << Ref("c") >>},
     cc \in {<<>>, << Ref("a") >>, << Ref("b") >>, << Ref("zz") >>, << "bad" >>}}

\* the ids an effects list can hold: the Event node, the Entity node, an id
\* of no node, and a value that is not a string
EffectIds == {"b", "c", "zz", NUMV}

EffectsNode(id, emits, modifies) ==
  [CommandNode(id) EXCEPT
     !.spec.effects = [tag |-> "obj", emits |-> emits, modifies |-> modifies]]

\* a Command whose effects name the Event b, the Entity c, or neither
CommandDocs ==
  {WithNodes(<< SystemNode("a"),
                Node("Event", "b", [EmptySpec EXCEPT !.payload = "obj"]),
                EntityNode("c", <<>>),
                EffectsNode("d", em, mo) >>) :
     em \in {NoList} \cup {List(x) : x \in SeqsUpTo(EffectIds, MaxRefs)},
     mo \in {NoList} \cup {List(x) : x \in SeqsUpTo(EffectIds, MaxRefs)}}

\* the types of an entity field: a scalar type, a reference to the Entity c
\* itself, to the Enum b, to a node that is missing, and no type
FieldTypes == {"string", RefType("c"), RefType("b"), RefType("zz"), UNDEF}

\* the fields f0, f1, ... of the given types, as Object.entries yields them
FieldsOf(types) == [k \in DOMAIN types |-> Field("f" \o Idx(k), types[k])]

\* an Entity whose spec.fields is absent, null, a scalar, or a mapping of up
\* to MaxRefs fields
EntityDocs ==
  {WithNodes(<< SystemNode("a"),
                Node("Enum", "b", [EmptySpec EXCEPT !.values = "arr"]),
                [EntityNode("c", <<>>) EXCEPT !.spec.fields = fs] >>) :
     fs \in {NoList, [tag |-> "null", items |-> <<>>], [tag |-> "str", items |-> <<>>]}
            \cup {[tag |-> "obj", items |-> FieldsOf(ts)] :
                    ts \in SeqsUpTo(FieldTypes, MaxRefs)}}

\* a System, an Enum and a Value node, each with or without its required key
KindDocs ==
  {WithNodes(<< Node("System", "a", [EmptySpec EXCEPT !.goals = g]),
                Node("Enum", "b", [EmptySpec EXCEPT !.values = v]),
                Node("Value", "c", [EmptySpec EXCEPT !.fields = f]) >>) :
     g \in {"arr", "undef", "str"},
     v \in {"arr", "undef", "str"},
     f \in {NoList, [tag |-> "obj", items |-> FieldsOf(<< "string" >>)]}}

\* histories of up to MaxHistory entries over two versions, each entry based
\* on null or on one of the versions; project.versioning.current is 1.0.0
HistoryDocs ==
  {[BaseDoc EXCEPT !.history = List(h)] :
     h \in SeqsUpTo({Entry(v, b, NoList, NoList) :
                       v \in {"1.0.0", "1.1.0"}, b \in {NULLV, "1.0.0", "1.1.0"}},
                    MaxHistory)}

\* changes that require a migration and changes that do not
ChangeVariants ==
  { Change("remove-field", "a", "y", UNDEF),
    Change("rename-node", "a", UNDEF, UNDEF),
    Change("add-field", "a", "y", TRUE),
    Change("add-field", "a", "y", FALSE),
    Change("add-node", "a", UNDEF, UNDEF) }

\* the migrations an entry declares: none, an empty list, one that is
\* complete (its id naming the change or not), one with a defect, or two
MigrationLists ==
  { NoList, List(<<>>),
    List(<< Migration("mig.a.y", "data", "arr") >>),
    List(<< Migration("mig.other", "schema", "arr") >>),
    List(<< Migration(UNDEF, "data", "arr") >>),
    List(<< Migration("mig.a", UNDEF, "arr") >>),
    List(<< Migration("mig.a", "manual", "arr") >>),
    List(<< Migration("mig.a", "process", "undef") >>),
    List(<< Migration("mig.a", "process", "str") >>),
    List(<< Migration("mig.a", "process", "arr0") >>),
    List(<< Migration("mig.a.y", "data", "arr"), Migration(UNDEF, "data", "arr0") >>) }

\* a history whose last entry declares up to MaxChanges changes and some
\* migrations, alone or after an entry that is complete
MigrationDocs ==
  {[BaseDoc EXCEPT !.history = List(<< Entry("1.0.0", NULLV, List(cs), ms) >>)] :
     cs \in SeqsUpTo(ChangeVariants, MaxChanges), ms \in MigrationLists}
  \cup
  {[BaseDoc EXCEPT !.history =
      List(<< Entry("0.9.0", NULLV,
                    List(<< Change("remove-field", "a", "y", UNDEF) >>),
                    List(<< Migration("mig.a.y", "data", "arr") >>)),
              Entry("1.0.0", "0.9.0", cs, ms) >>)] :
     cs \in {NoList} \cup {List(<< c >>) : c \in ChangeVariants},
     ms \in {NoList, List(<< Migration("mig.other", "schema", "arr0") >>)}}

\* a glob inside ApiGlob
ApiSubGlob == <<"a", "/", "b", "/", "*", "*">>

\* zones over two globs of which one covers the other, and a zone without path
ZoneVariants ==
  {Zone(p, m) : p \in {ApiGlob, ApiSubGlob}, m \in {"overwrite", "anchored"}}
  \cup {Zone(<<UNDEF>>, "preserve")}

\* generation sections with up to MaxZones zones and no hooks
ZoneDocs ==
  {[BaseDoc EXCEPT !.generation = Generation(List(zs), NoList)] :
     zs \in SeqsUpTo(ZoneVariants, MaxZones)}

\* a file two directories deep, a path with a dot and a path that has
\* another character in the place of the dot
ApiDeepFile == <<"a", "/", "b", "/", "c">>
DotPath == <<"a", ".", "b">>
DashPath == <<"a", "-", "b">>
\* a glob of one path segment
ApiStarGlob == <<"a", "/", "*">>

HookVariants ==
  { Hook("h", ApiFile, "s", "e"),
    Hook("h", ApiDeepFile, "s", "e"),
    Hook("h", DashPath, "s", "e"),
    Hook("g", DotPath, "s", "e"),
    Hook("g", <<"z">>, "s", "s") }

\* zone lists with no, one or two overwrite zones that can hold a hook's file
HookZoneLists ==
  { <<>>,
    << Zone(ApiGlob, "overwrite") >>,
    << Zone(ApiGlob, "anchored") >>,
    << Zone(DotPath, "overwrite") >>,
    << Zone(ApiStarGlob, "overwrite") >>,
    << Zone(ApiGlob, "anchored"), Zone(ApiGlob, "overwrite") >>,
    << Zone(ApiGlob, "overwrite"), Zone(ApiStarGlob, "overwrite") >>,
    << Zone(ApiStarGlob, "preserve"), Zone(DotPath, "anchored") >> }

\* generation sections with up to MaxHooks hooks
HookDocs ==
  {[BaseDoc EXCEPT !.generation = Generation(List(zs), List(hs))] :
     zs \in HookZoneLists, hs \in SeqsUpTo(HookVariants, MaxHooks)}

\* the actions of a Scenario's when clause: on the Command b, on the Command
\* c, on a command that is missing, and an action that names no command
WhenVariants ==
  { WhenAction("b"), WhenAction("c"), WhenAction("zz"),
    [WhenAction(UNDEF) EXCEPT !.command.tag = "absent"] }

\* generation.pipelines: not declared, complete, or with a pipeline that is
\* missing or whose cmd is empty or blank
PipelineVariants ==
  { NoGeneration.pipelines,
    [tag |-> "obj", build |-> Pipeline("b"), test |-> Pipeline("t"), migrate |-> Pipeline("m")],
    [tag |-> "obj", build |-> NoPipeline, test |-> Pipeline("t"), migrate |-> Pipeline("m")],
    [tag |-> "obj", build |-> Pipeline("b"), test |-> Pipeline("  "), migrate |-> Pipeline("m")],
    [tag |-> "obj", build |-> Pipeline("b"), test |-> NoPipeline, migrate |-> Pipeline("")] }

\* two Commands and a Scenario whose when clause covers both, one or none
CoverageDocs ==
  {[WithNodes(<< SystemNode("a"), CommandNode("b"), CommandNode("c"),
                 [ScenarioNode("d", <<>>) EXCEPT !.spec.when = wh] >>)
      EXCEPT !.generation =
        IF pl.tag = "obj" THEN [Generation(NoList, NoList) EXCEPT !.pipelines = pl]
        ELSE NoGeneration] :
     wh \in {NoList} \cup {List(w) : w \in SeqsUpTo(WhenVariants, MaxRefs)},
     pl \in PipelineVariants}

SectionDocs == CycleDocs \cup CommandDocs \cup EntityDocs \cup KindDocs \cup HistoryDocs
               \cup MigrationDocs \cup ZoneDocs \cup HookDocs \cup CoverageDocs
               \cup {BaseDoc}

(***************************************************************************)
(* The orchestrator: validate(), buildResult(), validateYaml()             *)
(***************************************************************************)
\* Bound on the number of validate / validateYaml calls of one behaviour.
MaxRuns == 3

\* A --phase argument: whether it holds a '-', and the Number() of each part
\* of its split; NaN for a part that is no number.
Num(n) == [nan |-> FALSE, n |-> n]
NaN == [nan |-> TRUE, n |-> 0]
PhaseStr(dash, parts) == [dash |-> dash, parts |-> parts]

\* for (let i = start; i <= end; i++) if (i >= 1 && i <= 6) phases.push(i)
RECURSIVE rangeLoop(_, _, _)
rangeLoop(i, end, acc) ==
  IF i > end THEN acc
  ELSE rangeLoop(i + 1, end, IF i >= 1 /\ i <= 6 THEN Append(acc, i) ELSE acc)

RECURSIVE listLoop(_, _)
listLoop(parts, acc) ==
  IF parts = <<>> THEN acc
  ELSE listLoop(Tail(parts),
                IF ~Head(parts).nan /\ Head(parts).n >= 1 /\ Head(parts).n <= 6
                THEN Append(acc, Head(parts).n) ELSE acc)

\* parsePhases that puts the ends of a range in order
parsePhases_ordered(p) ==
  IF p.dash
  THEN IF p.parts[1].nan \/ p.parts[2].nan THEN <<>>
       ELSE IF p.parts[1].n <= p.parts[2].n
       THEN rangeLoop(p.parts[1].n, p.parts[2].n, <<>>)
       ELSE rangeLoop(p.parts[2].n, p.parts[1].n, <<>>)
  ELSE listLoop(p.parts, <<>>)

\* a comparison with NaN is false, so the loop of a range with a NaN end
\* does not run
parsePhases(p) ==
  IF p.dash
  THEN IF p.parts[1].nan \/ p.parts[2].nan THEN <<>>
       ELSE rangeLoop(p.parts[1].n, p.parts[2].n, <<>>)
  ELSE listLoop(p.parts, <<>>)

\* --phase arguments that yield no phase: 3-1, 7-9, abc, x-2, 0,7
EmptyPhaseStrs ==
  { PhaseStr(TRUE, << Num(3), Num(1) >>),
    PhaseStr(TRUE, << Num(7), Num(9) >>),
    PhaseStr(FALSE, << NaN >>),
    PhaseStr(TRUE, << NaN, Num(2) >>),
    PhaseStr(FALSE, << Num(0), Num(7) >>) }

\* the default 1-6, and 0-7, 3,1, 2,2, 6,4,5, 4, 3,x
PhaseStrs ==
  EmptyPhaseStrs \cup
  { PhaseStr(TRUE, << Num(1), Num(6) >>),
    PhaseStr(TRUE, << Num(0), Num(7) >>),
    PhaseStr(FALSE, << Num(3), Num(1) >>),
    PhaseStr(FALSE, << Num(2), Num(2) >>),
    PhaseStr(FALSE, << Num(6), Num(4), Num(5) >>),
    PhaseStr(FALSE, << Num(4) >>),
    PhaseStr(FALSE, << Num(3), NaN >>) }

\* options.phases as callers pass it: the default, the empty list, lists out
\* of order and with repetitions, and single phases.
PhaseLists == {parsePhases(p) : p \in PhaseStrs}

VARIABLES
  text,          \* the source text: whether parseYaml accepts it and the value it yields
  doc,           \* the parsed document object the caller holds
  work,          \* the object the running call validates (spec)
  docIn,         \* the value of that object when the call started
  entry,         \* entry point of the running call: "validate" or "validateYaml"
  phases,        \* options.phases of the running call
  strict,        \* options.strict of the running call
  pc,            \* "idle", "phase1".."phase6" (the block about to run), "returned", "thrown"
  allErrors,
  currentPhase,
  result,        \* the ValidationResult returned
  ran,           \* the phase functions the running call has called, in order, each
                 \* with whether it threw and whether it returned a hard finding
  first,         \* the first completed call: its arguments and its outcome
  budget         \* calls left

\* generateWithValidation(provider, userPrompt, options)
VARIABLES
  maxRetries,    \* options.maxRetries
  attempts,
  lastErrors,
  currentPrompt,
  loopPc,        \* "off", "loop" (at the while test), "validating" (inside the
                 \* validateYaml call of line 94), "done"
  outcome,       \* the GenerationResult returned
  calls,         \* the number of provider.generate calls made
  sent,          \* the userPrompt of the latest provider.generate call
  fed,           \* what the attempt before the latest call ended with
  attemptErrors  \* what the latest failed attempt ended with: the parse error, or
                 \* the hard findings the validator collected

loopVars == <<maxRetries, attempts, lastErrors, currentPrompt, loopPc, outcome,
              calls, sent, fed, attemptErrors>>

\* bumpVersion(git, options) and checkVersionConsistency(specFile, git)
VARIABLES
  specFile,      \* the content of options.specFile on disk
  git,           \* whether a Git is passed, its tags, and whether the working
                 \* directory has uncommitted changes
  options,       \* BumpOptions of the running bumpVersion call
  bumpPc,        \* "off", "idle", "validating" (inside the validateYaml call),
                 \* "done", "thrown"
  content,       \* the content bumpVersion read
  effects,       \* the writes and git operations bumpVersion has made, in order
  bumpResult,    \* the BumpResult returned
  consistency    \* the VersionConsistencyResult of the latest check, and the
                 \* content it was made on

versionVars == <<specFile, git, options, bumpPc, content, effects, bumpResult, consistency>>

vars == <<text, doc, work, docIn, entry, phases, strict, pc, allErrors,
          currentPhase, result, ran, first, budget, loopVars, versionVars>>

\* pc while validate is about to run its k-th phase block
Block(k) == "phase" \o ToString(k)

NoResult == [ok |-> FALSE, errors |-> <<>>, warnings |-> <<>>, phase |-> 0]
NoFirst == [set |-> FALSE, entry |-> "none", phases |-> <<>>, strict |-> FALSE,
            status |-> "idle", result |-> NoResult]

\* includes off by the order of the list: only its first entry is looked at
includes_first(list, k) == list # <<>> /\ list[1] <= k

\* phases.includes(k)
includes(list, k) == \E i \in DOMAIN list : list[i] = k

\* hasHardErrors looking for the other level
hasHardErrors_soft(errors) == \E i \in DOMAIN errors : errors[i].level = "soft"

\* hasHardErrors comparing the level with a word no finding carries
hasHardErrors_error(errors) == \E i \in DOMAIN errors : errors[i].level = "error"

hasHardErrors(errors) == \E i \in DOMAIN errors : errors[i].level = "hard"

\* buildResult whose strict verdict still counts hard findings only
buildResult_lax(errors, phase, isStrict) ==
  LET IsHard(e) == e.level = "hard"
      IsSoft(e) == e.level = "soft"
      hardErrors == SelectSeq(errors, IsHard)
      softErrors == SelectSeq(errors, IsSoft)
  IN IF isStrict
     THEN [ok |-> Len(hardErrors) = 0, errors |-> errors, warnings |-> <<>>, phase |-> phase]
     ELSE [ok |-> Len(hardErrors) = 0, errors |-> hardErrors,
           warnings |-> softErrors, phase |-> phase]

buildResult(errors, phase, isStrict) ==
  LET IsHard(e) == e.level = "hard"
      IsSoft(e) == e.level = "soft"
      hardErrors == SelectSeq(errors, IsHard)
      softErrors == SelectSeq(errors, IsSoft)
  IN IF isStrict
     THEN [ok |-> Len(errors) = 0, errors |-> errors, warnings |-> <<>>, phase |-> phase]
     ELSE [ok |-> Len(hardErrors) = 0, errors |-> hardErrors,
           warnings |-> softErrors, phase |-> phase]

\* the result of validateYaml's catch block
ParseFailure ==
  [ok |-> FALSE,
   errors |-> << ErrMsg("STRUCTURAL_ERROR", 1, "hard", "", "Failed to parse YAML") >>,
   warnings |-> <<>>, phase |-> 1]

\* a prompt: the original request, and the error section appended to it
Prompt(original, feedback, section) ==
  [original |-> original, feedback |-> feedback, section |-> section]

userPrompt == "request"

NoOutcome == [success |-> FALSE, yaml |-> "none", attempts |-> 0, errors |-> <<>>]

\* no generation loop is running
LoopOff ==
  /\ maxRetries = 0
  /\ attempts = 0
  /\ lastErrors = <<>>
  /\ currentPrompt = Prompt(userPrompt, FALSE, <<>>)
  /\ loopPc = "off"
  /\ outcome = NoOutcome
  /\ calls = 0
  /\ sent = Prompt(userPrompt, FALSE, <<>>)
  /\ fed = <<>>
  /\ attemptErrors = <<>>

NoText == [parses |-> FALSE, value |-> [BaseDoc EXCEPT !.tag = "null"]]

NoOptions ==
  [type |-> "minor", changes |-> <<>>, noCommit |-> FALSE, noTag |-> FALSE,
   dryRun |-> FALSE]

NoBumpResult ==
  [success |-> FALSE, previousVersion |-> "0.0.0", newVersion |-> "0.0.0",
   commitHash |-> FALSE, tagName |-> UNDEF, errors |-> <<>>]

NoConsistency ==
  [set |-> FALSE, of |-> NoText, throws |-> FALSE, ok |-> FALSE, specVersion |-> "0.0.0",
   readable |-> "none", tag |-> "none", uncommitted |-> "none",
   chain |-> "none", current |-> "none"]

\* no version command is running
VersionOff ==
  /\ specFile = NoText
  /\ git = [present |-> FALSE, tags |-> {}, dirty |-> FALSE]
  /\ options = NoOptions
  /\ bumpPc = "off"
  /\ content = NoText
  /\ effects = <<>>
  /\ bumpResult = NoBumpResult
  /\ consistency = NoConsistency

Texts(docs) ==
  {[parses |-> TRUE, value |-> d] : d \in docs}
  \cup {[parses |-> FALSE, value |-> [BaseDoc EXCEPT !.tag = "null"]]}

InitWith(docs, runs) ==
  /\ text \in Texts(docs)
  /\ doc = text.value
  /\ work = text.value
  /\ docIn = text.value
  /\ entry = "none"
  /\ phases = <<>>
  /\ strict = FALSE
  /\ pc = "idle"
  /\ allErrors = <<>>
  /\ currentPhase = 1
  /\ result = NoResult
  /\ ran = <<>>
  /\ first = NoFirst
  /\ budget = runs
  /\ LoopOff
  /\ VersionOff

\* one call on any document of the model
Init == InitWith(AllDocs, 1)

\* several calls on one document
InitRuns == InitWith(RunDocs, MaxRuns)

\* one call on a document of the section families
InitSections == InitWith(SectionDocs, 1)

\* a call completes with status st ("returned" or "thrown") and result res
Complete(st, res) ==
  /\ pc' = st
  /\ result' = res
  /\ first' = IF first.set THEN first
              ELSE [set |-> TRUE, entry |-> entry, phases |-> phases,
                    strict |-> strict, status |-> st, result |-> res]

\* validate whose allErrors outlives the call (an accumulator kept outside of
\* the function)
ValidateCall_keep ==
  /\ pc \in {"idle", "returned", "thrown"}
  /\ budget > 0
  /\ text.parses
  /\ \E ph \in PhaseLists, st \in BOOLEAN :
       /\ phases' = ph
       /\ strict' = st
  /\ entry' = "validate"
  /\ work' = doc
  /\ docIn' = doc
  /\ allErrors' = allErrors
  /\ currentPhase' = 1
  /\ ran' = <<>>
  /\ result' = NoResult
  /\ pc' = Block(1)
  /\ budget' = budget - 1
  /\ UNCHANGED <<text, doc, first, loopVars, versionVars>>

\* validate(spec, options) is entered on the object the caller holds
ValidateCall ==
  /\ pc \in {"idle", "returned", "thrown"}
  /\ budget > 0
  /\ text.parses
  /\ \E ph \in PhaseLists, st \in BOOLEAN :
       /\ phases' = ph
       /\ strict' = st
  /\ entry' = "validate"
  /\ work' = doc
  /\ docIn' = doc
  /\ allErrors' = <<>>
  /\ currentPhase' = 1
  /\ ran' = <<>>
  /\ result' = NoResult
  /\ pc' = Block(1)
  /\ budget' = budget - 1
  /\ UNCHANGED <<text, doc, first, loopVars, versionVars>>

\* validateYaml(yaml, options): parseSpec yields a fresh object, or throws
\* and the catch block returns the parse failure
ValidateYamlCall ==
  /\ pc \in {"idle", "returned", "thrown"}
  /\ budget > 0
  /\ \E ph \in PhaseLists, st \in BOOLEAN :
       /\ phases' = ph
       /\ strict' = st
       /\ first' = IF first.set \/ text.parses THEN first
                   ELSE [set |-> TRUE, entry |-> "validateYaml", phases |-> ph,
                         strict |-> st, status |-> "returned", result |-> ParseFailure]
  /\ entry' = "validateYaml"
  /\ work' = text.value
  /\ docIn' = text.value
  /\ allErrors' = <<>>
  /\ currentPhase' = 1
  /\ ran' = <<>>
  /\ IF text.parses
     THEN pc' = Block(1) /\ result' = NoResult
     ELSE pc' = "returned" /\ result' = ParseFailure
  /\ budget' = budget - 1
  /\ UNCHANGED <<text, doc, loopVars, versionVars>>

\* One `if (phases.includes(k)) { ... }` block of validate; after block 6
\* the final `return buildResult(...)`.  out is the phase function's outcome
\* on the object, after the object it leaves behind.
PhaseBlock(k, out, after) ==
  /\ pc = Block(k)
  /\ UNCHANGED <<text, entry, phases, strict, docIn, budget, loopVars, versionVars>>
  /\ IF ~includes(phases, k)
     THEN /\ UNCHANGED <<doc, work, allErrors, currentPhase, ran>>
          /\ IF k = 6
             THEN Complete("returned", buildResult(allErrors, currentPhase, strict))
             ELSE pc' = Block(k + 1) /\ UNCHANGED <<result, first>>
     ELSE /\ currentPhase' = k
          /\ ran' = Append(ran, [phase |-> k, throws |-> out.throws,
                                  hard |-> \E i \in DOMAIN out.errors :
                                             out.errors[i].level = "hard"])
          /\ work' = after
          /\ doc' = IF entry = "validate" THEN after ELSE doc
          /\ IF out.throws
             THEN /\ UNCHANGED allErrors
                  /\ IF entry = "validateYaml"
                     THEN Complete("returned", ParseFailure)
                     ELSE Complete("thrown", NoResult)
             ELSE /\ allErrors' = allErrors \o out.errors
                  /\ IF k = 6 \/ hasHardErrors(out.errors)
                     THEN Complete("returned", buildResult(allErrors', k, strict))
                     ELSE pc' = Block(k + 1) /\ UNCHANGED <<result, first>>

Phase1 == PhaseBlock(1, validateStructural(work), work)
Phase2 == PhaseBlock(2, validateReferential(work), work)
Phase3 == PhaseBlock(3, validateSemantic(work), semanticEffect(work))
Phase4 == PhaseBlock(4, validateEvolution(work), work)
Phase5 == PhaseBlock(5, validateGeneration(work), work)
Phase6 == PhaseBlock(6, validateVerifiability(work), work)

Next ==
  \/ ValidateCall
  \/ ValidateYamlCall
  \/ Phase1
  \/ Phase2
  \/ Phase3
  \/ Phase4
  \/ Phase5
  \/ Phase6

Spec == Init /\ [][Next]_vars

SpecRuns == InitRuns /\ [][Next]_vars

SpecSections == InitSections /\ [][Next]_vars

(***************************************************************************)
(* The validation loop: generateWithValidation()                           *)
(***************************************************************************)
\* Bound on options.maxRetries.
MaxRetries == 3

\* The documents a provider answers with: the minimal document, a document
\* with a warning only, documents with a hard finding of phase 1, 2, 4 and
\* 6, and a document on which a phase throws.
GenDocs ==
  { BaseDoc,
    PhaseDoc("ok", "ok", "ok", "ok", "ok", "soft"),
    PhaseDoc("hard", "ok", "ok", "ok", "ok", "ok"),
    PhaseDoc("ok", "hard", "ok", "ok", "ok", "ok"),
    PhaseDoc("ok", "ok", "ok", "hard", "ok", "ok"),
    PhaseDoc("ok", "ok", "ok", "ok", "ok", "both"),
    [BaseDoc EXCEPT !.domain.tag = "null"] }

\* provider.generate's answers, each by the YAML text its content carries
Responses == {[content |-> t] : t \in Texts(GenDocs)}

\* extractYaml: the text inside the code block, the text from `spec:
\* sysconst/v1` on, or the trimmed content
extractYaml(response) == response.content

\* the ValidationError of the catch block around parseYaml
parseError == ErrMsg("STRUCTURAL_ERROR", 1, "hard", "", "YAML parse error")

\* of each error the prompt carries the code, the message and the location
buildErrorFeedbackPrompt(originalPrompt, errors) ==
  Prompt(originalPrompt, TRUE,
         [i \in DOMAIN errors |->
            [code |-> errors[i].code, message |-> errors[i].message,
             location |-> errors[i].location]])

\* a loop test that lets one more attempt through
loopTest_inclusive(a, m) == a <= m

\* while (attempts < options.maxRetries)
loopTest(a, m) == a < m

\* a result taken as valid for having reached the last phase
accepted_phase(res) == res.phase = 6

\* if (result.ok)
accepted(res) == res.ok

InitGen ==
  /\ text = NoText
  /\ doc = text.value
  /\ work = text.value
  /\ docIn = text.value
  /\ entry = "none"
  /\ phases = <<>>
  /\ strict = FALSE
  /\ pc = "idle"
  /\ allErrors = <<>>
  /\ currentPhase = 1
  /\ result = NoResult
  /\ ran = <<>>
  /\ first = NoFirst
  /\ budget = 0
  /\ maxRetries \in 0..MaxRetries
  /\ attempts = 0
  /\ lastErrors = <<>>
  /\ currentPrompt = Prompt(userPrompt, FALSE, <<>>)
  /\ loopPc = "loop"
  /\ outcome = NoOutcome
  /\ calls = 0
  /\ sent = Prompt(userPrompt, FALSE, <<>>)
  /\ fed = <<>>
  /\ attemptErrors = <<>>
  /\ VersionOff

\* One iteration of the loop up to the validateYaml call: attempts++, the
\* provider's answer, extractYaml, parseYaml; a text that does not parse
\* ends the iteration in the catch block, any other enters
\* validateYaml(yaml, { strict: false }).
Attempt ==
  /\ loopPc = "loop"
  /\ loopTest(attempts, maxRetries)
  /\ attempts' = attempts + 1
  /\ calls' = calls + 1
  /\ sent' = currentPrompt
  /\ fed' = attemptErrors
  /\ \E response \in Responses :
       LET yaml == extractYaml(response) IN
       /\ text' = yaml
       /\ IF ~yaml.parses
          THEN /\ lastErrors' = << parseError >>
               /\ attemptErrors' = << parseError >>
               /\ currentPrompt' = buildErrorFeedbackPrompt(userPrompt, lastErrors')
               /\ loopPc' = "loop"
               /\ UNCHANGED <<doc, work, docIn, entry, phases, strict, pc, allErrors,
                              currentPhase, result, ran>>
          ELSE /\ doc' = yaml.value
               /\ work' = yaml.value
               /\ docIn' = yaml.value
               /\ entry' = "validateYaml"
               /\ phases' = <<1, 2, 3, 4, 5, 6>>
               /\ strict' = FALSE
               /\ pc' = Block(1)
               /\ allErrors' = <<>>
               /\ currentPhase' = 1
               /\ result' = NoResult
               /\ ran' = <<>>
               /\ loopPc' = "validating"
               /\ UNCHANGED <<lastErrors, attemptErrors, currentPrompt>>
  /\ UNCHANGED <<first, budget, maxRetries, outcome, versionVars>>

\* validateYaml has returned: success on result.ok, else the errors are kept
\* and fed into the next prompt
AfterValidate ==
  /\ loopPc = "validating"
  /\ pc = "returned"
  /\ IF accepted(result)
     THEN /\ outcome' = [success |-> TRUE, yaml |-> text, attempts |-> attempts,
                         errors |-> <<>>]
          /\ loopPc' = "done"
          /\ UNCHANGED <<lastErrors, attemptErrors, currentPrompt>>
     ELSE /\ lastErrors' = result.errors
          /\ attemptErrors' =
               IF ran # <<>> /\ ran[Len(ran)].throws THEN ParseFailure.errors
               ELSE SelectSeq(allErrors, LAMBDA e : e.level = "hard")
          /\ currentPrompt' = buildErrorFeedbackPrompt(userPrompt, lastErrors')
          /\ loopPc' = "loop"
          /\ UNCHANGED outcome
  /\ UNCHANGED <<text, doc, work, docIn, entry, phases, strict, pc, allErrors,
                 currentPhase, result, ran, first, budget, maxRetries, attempts,
                 calls, sent, fed, versionVars>>

\* the loop test fails: Max retries exceeded
Exhausted ==
  /\ loopPc = "loop"
  /\ ~loopTest(attempts, maxRetries)
  /\ outcome' = [success |-> FALSE, yaml |-> "none", attempts |-> attempts,
                 errors |-> lastErrors]
  /\ loopPc' = "done"
  /\ UNCHANGED <<text, doc, work, docIn, entry, phases, strict, pc, allErrors,
                 currentPhase, result, ran, first, budget, maxRetries, attempts,
                 lastErrors, currentPrompt, calls, sent, fed, attemptErrors,
                 versionVars>>

NextGen ==
  \/ Attempt
  \/ Phase1
  \/ Phase2
  \/ Phase3
  \/ Phase4
  \/ Phase5
  \/ Phase6
  \/ AfterValidate
  \/ Exhausted

SpecGen == InitGen /\ [][NextGen]_vars

\* every await of the loop resolves and every synchronous block runs on
SpecGenLive == SpecGen /\ WF_vars(NextGen)

(***************************************************************************)
(* The version commands: bumpVersion() and checkVersionConsistency()       *)
(***************************************************************************)
\* Bound on the components of the versions that parse.
MaxVersionPart == 2

\* Bound on the number of history entries of the spec files on disk.
MaxBumpHistory == 2

VersionTriples ==
  (0..MaxVersionPart) \X (0..MaxVersionPart) \X (0..MaxVersionPart)

formatVersion(t) == ToString(t[1]) \o "." \o ToString(t[2]) \o "." \o ToString(t[3])

\* semver.valid: major.minor.patch
semverValid(v) == \E t \in VersionTriples : formatVersion(t) = v

semverParse(v) == CHOOSE t \in VersionTriples : formatVersion(t) = v

\* semver.inc(version, type): null for a version that does not parse
semverInc(v, type) ==
  IF ~semverValid(v) THEN NULLV
  ELSE LET t == semverParse(v) IN
       formatVersion(CASE type = "major" -> <<t[1] + 1, 0, 0>>
                       [] type = "minor" -> <<t[1], t[2] + 1, 0>>
                       [] OTHER -> <<t[1], t[2], t[3] + 1>>)

\* spec?.project?.versioning?.current
currentOf(f) ==
  IF /\ f.value.tag = "obj"
     /\ f.value.project.tag = "obj"
     /\ f.value.project.versioning.tag = "obj"
  THEN f.value.project.versioning.current
  ELSE UNDEF

\* the history entries a spec file holds: each over two versions and based
\* on null or on one of them
VersionEntries ==
  {Entry(v, b, NoList, NoList) : v \in {"1.0.0", "1.1.0"}, b \in {NULLV, "1.0.0", "1.1.0"}}

\* spec files: history absent, empty or of up to MaxBumpHistory entries,
\* current one of the two versions; and files whose current version is
\* missing or no semver, whose history is no array, and a null document
VersionDocs ==
  {[BaseDoc EXCEPT !.project.versioning.current = c, !.history = h] :
     c \in {"1.0.0", "1.1.0"},
     h \in {NoList} \cup {List(x) : x \in SeqsUpTo(VersionEntries, MaxBumpHistory)}}
  \cup { [BaseDoc EXCEPT !.project.versioning.current = "abc"],
         [BaseDoc EXCEPT !.project.versioning.current = UNDEF],
         [BaseDoc EXCEPT !.history.tag = "obj"],
         [BaseDoc EXCEPT !.tag = "null"] }

\* no Git, or a clean repository with the tag of version 1.0.0
GitStates ==
  { [present |-> FALSE, tags |-> {}, dirty |-> FALSE],
    [present |-> TRUE, tags |-> {"v1.0.0"}, dirty |-> FALSE] }

BumpOptionSets ==
  [type : {"minor"},
   changes : {<<>>, << Change("remove-field", "a", "y", FALSE) >>},
   noCommit : BOOLEAN, noTag : BOOLEAN, dryRun : BOOLEAN]

InitVersion ==
  /\ text = NoText
  /\ doc = text.value
  /\ work = text.value
  /\ docIn = text.value
  /\ entry = "none"
  /\ phases = <<>>
  /\ strict = FALSE
  /\ pc = "idle"
  /\ allErrors = <<>>
  /\ currentPhase = 1
  /\ result = NoResult
  /\ ran = <<>>
  /\ first = NoFirst
  /\ budget = 0
  /\ LoopOff
  /\ specFile \in Texts(VersionDocs)
  /\ git \in GitStates
  /\ options = NoOptions
  /\ bumpPc = "idle"
  /\ content = NoText
  /\ effects = <<>>
  /\ bumpResult = NoBumpResult
  /\ consistency = NoConsistency

\* the document with current set to newVersion and the history entry pushed
updatedSpec(spec, currentVersion, newVersion, changes) ==
  [spec EXCEPT
     !.project.versioning.current = newVersion,
     !.history = List((IF spec.history.tag = "arr" THEN spec.history.items ELSE <<>>)
                      \o << Entry(newVersion, currentVersion, List(changes), List(<<>>)) >>)]

\* bumpVersion up to the validateYaml call: the file is read and parsed (a
\* text that does not parse throws), the two early returns, the update of
\* the document (push on a history that is no array throws), stringifyYaml,
\* and the entry into validateYaml(updatedYaml, { strict: false }).
BumpStart ==
  /\ bumpPc = "idle"
  /\ content' = specFile
  /\ \E o \in BumpOptionSets :
       LET currentVersion == currentOf(specFile)
           newVersion == semverInc(currentVersion, o.type)
           updated == updatedSpec(specFile.value, currentVersion, newVersion, o.changes)
       IN
       /\ options' = o
       /\ IF ~specFile.parses \/ (~Falsy(currentVersion) /\ newVersion # NULLV
                                   /\ specFile.value.history.tag = "obj")
          THEN /\ bumpPc' = "thrown"
               /\ UNCHANGED <<bumpResult, text, doc, work, docIn, entry, phases, strict,
                              pc, allErrors, currentPhase, result, ran>>
          ELSE IF Falsy(currentVersion)
          THEN /\ bumpPc' = "done"
               /\ bumpResult' =
                    [NoBumpResult EXCEPT
                       !.errors = << [code |-> "", message |-> "Cannot find current version in spec"] >>]
               /\ UNCHANGED <<text, doc, work, docIn, entry, phases, strict,
                              pc, allErrors, currentPhase, result, ran>>
          ELSE IF newVersion = NULLV
          THEN /\ bumpPc' = "done"
               /\ bumpResult' =
                    [NoBumpResult EXCEPT
                       !.previousVersion = currentVersion,
                       !.newVersion = currentVersion,
                       !.errors = << [code |-> "", message |-> "Invalid version format"] >>]
               /\ UNCHANGED <<text, doc, work, docIn, entry, phases, strict,
                              pc, allErrors, currentPhase, result, ran>>
          ELSE /\ bumpPc' = "validating"
               /\ bumpResult' =
                    [NoBumpResult EXCEPT !.previousVersion = currentVersion,
                                         !.newVersion = newVersion]
               /\ text' = [parses |-> TRUE, value |-> updated]
               /\ doc' = updated
               /\ work' = updated
               /\ docIn' = updated
               /\ entry' = "validateYaml"
               /\ phases' = <<1, 2, 3, 4, 5, 6>>
               /\ strict' = FALSE
               /\ pc' = Block(1)
               /\ allErrors' = <<>>
               /\ currentPhase' = 1
               /\ result' = NoResult
               /\ ran' = <<>>
  /\ UNCHANGED <<first, budget, loopVars, specFile, git, effects, consistency>>

\* the git operations that took effect when the operation `failed` throws
\* ("none": no operation throws)
gitDone(failed, noTag) ==
  CASE failed = "add" -> <<>>
    [] failed = "commit" -> << "add" >>
    [] failed = "tag" -> << "add", "commit" >>
    [] OTHER -> << "add", "commit" >> \o (IF noTag THEN <<>> ELSE << "tag" >>)

\* bumpVersion that writes the file before it looks at the validation result
BumpFinish_early ==
  /\ bumpPc = "validating"
  /\ pc = "returned"
  /\ bumpPc' = "done"
  /\ specFile' = text
  /\ effects' = << "write" >>
  /\ git' = [git EXCEPT !.dirty = git.present]
  /\ bumpResult' = [bumpResult EXCEPT !.success = result.ok]
  /\ UNCHANGED <<text, doc, work, docIn, entry, phases, strict, pc, allErrors,
                 currentPhase, result, ran, first, budget, loopVars, options,
                 content, consistency>>

\* bumpVersion after validateYaml has returned: the not-ok return, the dry
\* run return, writeFileSync, and git add, commit and tag inside one try
BumpFinish ==
  /\ bumpPc = "validating"
  /\ pc = "returned"
  /\ bumpPc' = "done"
  /\ IF ~result.ok
     THEN /\ bumpResult' =
               [bumpResult EXCEPT
                  !.errors = [i \in DOMAIN result.errors |->
                                [code |-> result.errors[i].code,
                                 message |-> result.errors[i].message]]]
          /\ UNCHANGED <<specFile, git, effects>>
     ELSE IF options.dryRun
     THEN /\ bumpResult' = [bumpResult EXCEPT !.success = TRUE]
          /\ UNCHANGED <<specFile, git, effects>>
     ELSE /\ specFile' = text
          /\ IF git.present /\ ~options.noCommit
             THEN \E failed \in {"none", "add", "commit"}
                                \cup (IF options.noTag THEN {} ELSE {"tag"}) :
                    LET done == gitDone(failed, options.noTag)
                        tagName == "v" \o bumpResult.newVersion
                    IN
                    /\ effects' = << "write" >> \o done
                    /\ git' = [git EXCEPT
                                 !.dirty = \A i \in DOMAIN done : done[i] # "commit",
                                 !.tags = IF \E i \in DOMAIN done : done[i] = "tag"
                                          THEN @ \cup {tagName} ELSE @]
                    /\ bumpResult' =
                         [bumpResult EXCEPT
                            !.success = failed = "none",
                            !.commitHash = \E i \in DOMAIN done : done[i] = "commit",
                            !.tagName = IF failed \in {"none", "tag"} /\ ~options.noTag
                                        THEN tagName ELSE UNDEF,
                            !.errors = IF failed = "none" THEN <<>>
                                       ELSE << [code |-> "", message |-> "Git error"] >>]
             ELSE /\ effects' = << "write" >>
                  /\ git' = [git EXCEPT !.dirty = git.present]
                  /\ bumpResult' = [bumpResult EXCEPT !.success = TRUE]
  /\ UNCHANGED <<text, doc, work, docIn, entry, phases, strict, pc, allErrors,
                 currentPhase, result, ran, first, budget, loopVars, options,
                 content, consistency>>

\* one check of a VersionConsistencyResult
Check(passed) == IF passed THEN "passed" ELSE "failed"

\* historyValid: every basedOn is null or the version of some entry
historyValid(history) ==
  \A i \in DOMAIN history :
    \/ history[i].basedOn = NULLV
    \/ \E j \in DOMAIN history : history[j].version = history[i].basedOn

\* checkVersionConsistency(specFile, git) on the content f of the file
checkVersionConsistency(f, g) ==
  IF ~f.parses
  THEN [NoConsistency EXCEPT !.set = TRUE, !.of = f, !.readable = "failed"]
  ELSE IF f.value.tag = "obj" /\ f.value.history.tag = "obj"
  THEN [NoConsistency EXCEPT !.set = TRUE, !.of = f, !.throws = TRUE]   \* history.map
  ELSE
    LET specVersion == IF Falsy(currentOf(f)) THEN "0.0.0" ELSE currentOf(f)
        history == IF f.value.tag = "obj" /\ f.value.history.tag = "arr"
                   THEN f.value.history.items ELSE <<>>
        tag == IF g.present THEN Check(("v" \o specVersion) \in g.tags) ELSE "none"
        uncommitted == IF g.present THEN Check(~g.dirty) ELSE "none"
        chain == Check(historyValid(history))
        current == Check(\E i \in DOMAIN history : history[i].version = specVersion)
    IN [set |-> TRUE, of |-> f, throws |-> FALSE,
        ok |-> \A c \in {tag, uncommitted, chain, current} : c # "failed",
        specVersion |-> specVersion, readable |-> "passed", tag |-> tag,
        uncommitted |-> uncommitted, chain |-> chain, current |-> current]

\* `sysconst version check` on the file as it is on disk
CheckVersion ==
  /\ bumpPc \in {"idle", "done", "thrown"}
  /\ consistency # checkVersionConsistency(specFile, git)
  /\ consistency' = checkVersionConsistency(specFile, git)
  /\ UNCHANGED <<text, doc, work, docIn, entry, phases, strict, pc, allErrors,
                 currentPhase, result, ran, first, budget, loopVars, specFile, git,
                 options, bumpPc, content, effects, bumpResult>>

NextVersion ==
  \/ BumpStart
  \/ Phase1
  \/ Phase2
  \/ Phase3
  \/ Phase4
  \/ Phase5
  \/ Phase6
  \/ BumpFinish
  \/ CheckVersion

SpecVersion == InitVersion /\ [][NextVersion]_vars

(***************************************************************************)
(* Properties                                                              *)
(***************************************************************************)
Last(q) == q[Len(q)]

\* the running call ended in validateYaml's catch block
Caught ==
  /\ entry = "validateYaml"
  /\ pc = "returned"
  /\ ~text.parses \/ (ran # <<>> /\ Last(ran).throws)

\* the running call ended in a `return buildResult(...)` of validate
Built == pc = "returned" /\ ~Caught

\* C1: a phase among 1-5 that returns a hard finding is the last phase the
\* call executes and the call returns at once with result.phase equal to it;
\* a phase is executed only after every selected earlier phase has been
\* executed and returned no hard finding.
C1_ShortCircuit ==
  /\ \A i \in DOMAIN ran :
       ran[i].hard /\ ran[i].phase <= 5 =>
         /\ i = Len(ran)
         /\ pc = "returned"
         /\ result.phase = ran[i].phase
  /\ \A j \in DOMAIN ran : \A q \in Range(phases) :
       q < ran[j].phase =>
         \E i \in 1..(j - 1) : ran[i].phase = q /\ ~ran[i].hard /\ ~ran[i].throws

\* a call stopped at a hard finding of phase 3 although phase 4 was selected
C1_Witness ==
  /\ pc = "returned"
  /\ Len(ran) = 3
  /\ Last(ran).phase = 3 /\ Last(ran).hard
  /\ includes(phases, 4)
  /\ result.phase = 3

\* C2: the verdict of a returned call over the findings it collected.  Not
\* strict: ok iff no finding is hard, errors are the hard findings and
\* warnings the soft ones.  Strict: ok iff there is no finding, errors are all
\* findings, warnings is empty.  In both, ok implies errors is empty.
C2_Verdict ==
  Built =>
    /\ result.phase = currentPhase
    /\ IF strict
       THEN /\ result.ok <=> allErrors = <<>>
            /\ result.errors = allErrors
            /\ result.warnings = <<>>
       ELSE /\ result.ok <=> \A i \in DOMAIN allErrors : allErrors[i].level # "hard"
            /\ \A i \in DOMAIN result.errors : result.errors[i].level = "hard"
            /\ \A i \in DOMAIN result.warnings : result.warnings[i].level = "soft"
            /\ Range(result.errors) \cup Range(result.warnings) = Range(allErrors)
            /\ Len(result.errors) + Len(result.warnings) = Len(allErrors)
    /\ result.ok => result.errors = <<>>

\* a strict call that is not ok although all its findings are soft
C2_Witness ==
  /\ Built
  /\ strict
  /\ ~result.ok
  /\ allErrors # <<>>
  /\ \A i \in DOMAIN allErrors : allErrors[i].level = "soft"
  /\ result.errors = allErrors

\* C7: whatever the order and repetitions of options.phases, the phases a
\* call executes are in ascending order, each at most once and each selected;
\* a call that returns without a hard finding before phase 6 has executed
\* every selected phase.
C7_PhaseOrder ==
  /\ \A i, j \in DOMAIN ran : i < j => ran[i].phase < ran[j].phase
  /\ \A i \in DOMAIN ran : ran[i].phase \in Range(phases)
  /\ (Built /\ \A i \in DOMAIN ran : ran[i].hard => ran[i].phase = 6)
       => {ran[i].phase : i \in DOMAIN ran} = Range(phases) \cap (1..6)

\* options.phases = [3, 1] ran phase 1 and then phase 3
C7_Witness ==
  /\ phases = <<3, 1>>
  /\ Len(ran) = 2
  /\ ran[1].phase = 1 /\ ran[2].phase = 3
  /\ pc = Block(4)

\* C3: a call with the arguments of the first completed call of the
\* behaviour, on the same document object, ends as that call did (returned
\* or thrown) with an identical result, whatever calls came in between.
C3_Idempotent ==
  ( /\ pc \in {"returned", "thrown"}
    /\ first.set
    /\ entry = first.entry /\ phases = first.phases /\ strict = first.strict )
  => (pc = first.status /\ result = first.result)

\* a later validate() call repeats the first call's arguments on a document
\* object whose clause levels an earlier call has filled in
C3_Witness ==
  /\ pc = "returned"
  /\ budget <= MaxRuns - 2
  /\ first.set
  /\ entry = "validate" /\ first.entry = "validate"
  /\ phases = first.phases /\ strict = first.strict
  /\ includes(phases, 3)
  /\ doc # text.value
  /\ result.warnings # <<>>
  /\ result = first.result

\* C4: when a call has ended, the object it validated equals its value at
\* the start of the call.
C4_InputUnchanged ==
  pc \in {"returned", "thrown"} => work = docIn

\* C5: no phase function throws.
C5_PhasesNeverThrow ==
  \A i \in DOMAIN ran : ~ran[i].throws

\* C6: validateYaml returns the parse-failure result when the text fails to
\* parse, and only then.
C6_ParseFailureIffUnparsable ==
  (entry = "validateYaml" /\ pc = "returned") =>
    (result = ParseFailure <=> ~text.parses)

\* the node sequence phase 1 was handed, if the document has one
HasNodeSeq(d) == d.tag = "obj" /\ d.domain.tag = "obj" /\ d.domain.nodes.tag = "arr"

\* phase 1 was executed by the running call and returned its findings
StructuralReturned == ran # <<>> /\ ran[1].phase = 1 /\ ~ran[1].throws

\* the indices of the nodes whose id is the id of an earlier node
DuplicateAt(nodes) ==
  {i \in DOMAIN nodes :
     /\ nodes[i].tag = "obj" /\ nodes[i].id # UNDEF
     /\ \E j \in 1..(i - 1) : nodes[j].tag = "obj" /\ nodes[j].id = nodes[i].id}

DuplicateErrors(errors) ==
  {i \in DOMAIN errors : errors[i].code = "DUPLICATE_NODE_ID"}

\* C8: the findings of phase 1 hold exactly one DUPLICATE_NODE_ID for each
\* node whose id equals the id of an earlier node, located at that node's
\* index, and none else; with at least one, the returned verdict is not ok.
C8_DuplicateIds ==
  (StructuralReturned /\ HasNodeSeq(work)) =>
    LET nodes == work.domain.nodes.items
        dups == DuplicateErrors(allErrors)
    IN /\ Cardinality(dups) = Cardinality(DuplicateAt(nodes))
       /\ \A i \in DuplicateAt(nodes) :
            \E e \in dups :
              /\ allErrors[e].location = "domain.nodes[" \o Idx(i) \o "].id"
              /\ allErrors[e].level = "hard" /\ allErrors[e].phase = 1
       /\ DuplicateAt(nodes) # {} => (pc = "returned" /\ ~result.ok /\ result.phase = 1)

\* an id that occurs three times gave two errors, at the second and third node
C8_Witness ==
  /\ StructuralReturned /\ HasNodeSeq(work)
  /\ pc = "returned"
  /\ Len(work.domain.nodes.items) = 3
  /\ DuplicateAt(work.domain.nodes.items) = {2, 3}
  /\ Cardinality(DuplicateErrors(allErrors)) = 2

\* the six required top-level fields of a document
RequiredTopLevel(d) ==
  /\ d.spec = "sysconst/v1"
  /\ d.project.tag = "obj" /\ ~Falsy(d.project.id)
  /\ d.project.versioning.tag = "obj"
  /\ ~Falsy(d.project.versioning.strategy)
  /\ ~Falsy(d.project.versioning.current)
  /\ d.structure.tag = "obj" /\ ~Falsy(d.structure.root)
  /\ d.domain.tag = "obj" /\ d.domain.nodes.tag = "arr"

\* C9: phase 1 returns a hard finding whenever one of the six required
\* top-level fields is missing or wrong.
C9_RequiredFields ==
  (StructuralReturned /\ work.tag = "obj" /\ ~RequiredTopLevel(work)) => ran[1].hard

\* phase 2 was executed by the running call and returned no hard finding
ReferentialPassed ==
  \E i \in DOMAIN ran : ran[i].phase = 2 /\ ~ran[i].throws /\ ~ran[i].hard

\* a reference string that names an existing node
Resolves(nodes, r) ==
  \E id \in RefIds : r = Ref(id) /\ \E i \in DOMAIN nodes : nodes[i].id = id

\* C10: a document that passes phase 2 has no unresolved reference in
\* structure.root, in the children of any node, or in tests.scenarios.
C10_ReferencesResolve ==
  ReferentialPassed =>
    LET nodes == work.domain.nodes.items IN
    /\ Resolves(nodes, work.structure.root)
    /\ \A i \in DOMAIN nodes :
         nodes[i].children.tag = "arr" =>
           \A c \in DOMAIN nodes[i].children.items :
             Resolves(nodes, nodes[i].children.items[c])
    /\ (work.tests.tag = "obj" /\ work.tests.scenarios.tag = "arr") =>
         \A k \in DOMAIN work.tests.scenarios.items :
           Resolves(nodes, work.tests.scenarios.items[k])

(***************************************************************************)
(* Properties of the phases                                                *)
(***************************************************************************)
\* phase k was executed by the running call and returned its findings
PhaseReturned(k) == \E i \in DOMAIN ran : ran[i].phase = k /\ ~ran[i].throws

\* the findings of phase k with the given code, as indices of allErrors
Findings(k, code) ==
  {e \in DOMAIN allErrors : allErrors[e].phase = k /\ allErrors[e].code = code}

UniqueIds(nodes) ==
  \A i, j \in DOMAIN nodes : nodes[i].id = nodes[j].id => i = j

\* the children relation: an edge from a node to each id its children name
Edges(nodes) ==
  {e \in {nodes[i].id : i \in DOMAIN nodes} \X RefIds :
     \E i \in DOMAIN nodes :
       /\ nodes[i].id = e[1]
       /\ \E c \in DOMAIN nodes[i].children.items :
            nodes[i].children.items[c] = Ref(e[2])}

\* p is a walk along the children relation that returns to where it began
IsCyclePath(nodes, p) ==
  /\ Len(p) >= 2
  /\ p[1] = p[Len(p)]
  /\ \A k \in 1..(Len(p) - 1) : <<p[k], p[k + 1]>> \in Edges(nodes)

HasCycle(nodes) ==
  \E n \in 2..(Len(nodes) + 1) : \E p \in [1..n -> RefIds] : IsCyclePath(nodes, p)

ContainsCycle(nodes, path) ==
  \E i, j \in DOMAIN path : i < j /\ IsCyclePath(nodes, SubSeq(path, i, j))

\* C11: when the children relation of a document has a cycle, phase 2
\* returns at least one hard CIRCULAR_CHILDREN finding whose context.cycle
\* holds a full cycle; when it has none, phase 2 returns no such finding.
C11_CyclesReported ==
  (PhaseReturned(2) /\ UniqueIds(work.domain.nodes.items)) =>
    LET nodes == work.domain.nodes.items
        circ == Findings(2, "CIRCULAR_CHILDREN")
    IN IF HasCycle(nodes)
       THEN \E e \in circ : /\ allErrors[e].level = "hard"
                            /\ ContainsCycle(nodes, allErrors[e].cycle)
       ELSE circ = {}

\* the cycle a -> b -> c -> a was reported with its full path
C11_Witness ==
  /\ PhaseReturned(2)
  /\ UniqueIds(work.domain.nodes.items)
  /\ HasCycle(work.domain.nodes.items)
  /\ \E e \in Findings(2, "CIRCULAR_CHILDREN") :
       allErrors[e].cycle = <<"a", "b", "c", "a">>

\* the ids of the nodes of one kind
NodeIds(nodes, kind) == {nodes[i].id : i \in {k \in DOMAIN nodes : nodes[k].kind = kind}}

\* the findings of phase 3 with the given code at the given location
FindingsAt(code, location) ==
  {e \in Findings(3, code) : allErrors[e].location = location}

\* one hard finding `code` for each entry of the list that is not in ids,
\* located at the entry, and none for the others
OnePerUnresolved(list, ids, code, location) ==
  /\ list.tag = "arr" =>
       \A j \in DOMAIN list.items :
         LET at == FindingsAt(code, location \o "[" \o Idx(j) \o "]")
         IN /\ Cardinality(at) = IF list.items[j] \in ids THEN 0 ELSE 1
            /\ \A e \in at : allErrors[e].level = "hard"

\* C12: for every Command node, phase 3 returns exactly one hard
\* UNRESOLVED_EFFECT_EVENT for each entry of effects.emits that is not the id
\* of an Event node, at domain.nodes[i].spec.effects.emits[j], exactly one
\* hard UNRESOLVED_EFFECT_ENTITY for each entry of effects.modifies that is
\* not the id of an Entity node, and nothing for an entry that resolves.
C12_CommandEffects ==
  PhaseReturned(3) =>
    LET nodes == work.domain.nodes.items
        commands == {i \in DOMAIN nodes : nodes[i].kind = "Command"}
        atEntry(e, list, location) ==
          /\ list.tag = "arr"
          /\ \E j \in DOMAIN list.items :
               allErrors[e].location = location \o "[" \o Idx(j) \o "]"
    IN /\ \A i \in commands :
            LET loc == "domain.nodes[" \o Idx(i) \o "].spec.effects" IN
            /\ OnePerUnresolved(nodes[i].spec.effects.emits, NodeIds(nodes, "Event"),
                                "UNRESOLVED_EFFECT_EVENT", loc \o ".emits")
            /\ OnePerUnresolved(nodes[i].spec.effects.modifies, NodeIds(nodes, "Entity"),
                                "UNRESOLVED_EFFECT_ENTITY", loc \o ".modifies")
       /\ \A e \in Findings(3, "UNRESOLVED_EFFECT_EVENT") :
            \E i \in commands :
              atEntry(e, nodes[i].spec.effects.emits,
                      "domain.nodes[" \o Idx(i) \o "].spec.effects.emits")
       /\ \A e \in Findings(3, "UNRESOLVED_EFFECT_ENTITY") :
            \E i \in commands :
              atEntry(e, nodes[i].spec.effects.modifies,
                      "domain.nodes[" \o Idx(i) \o "].spec.effects.modifies")

\* a Command that emits the Event b and an event that is missing, and that
\* modifies the Event b: one finding for emits[1], one for modifies[0]
C12_Witness ==
  /\ PhaseReturned(3)
  /\ Len(work.domain.nodes.items) = 4
  /\ work.domain.nodes.items[4].kind = "Command"
  /\ work.domain.nodes.items[4].spec.effects.emits = List(<< "b", "zz" >>)
  /\ work.domain.nodes.items[4].spec.effects.modifies = List(<< "b" >>)
  /\ Cardinality(Findings(3, "UNRESOLVED_EFFECT_EVENT")) = 1
  /\ FindingsAt("UNRESOLVED_EFFECT_EVENT", "domain.nodes[3].spec.effects.emits[1]") # {}
  /\ FindingsAt("UNRESOLVED_EFFECT_ENTITY", "domain.nodes[3].spec.effects.modifies[0]") # {}

\* the field's type is ref(x) and x is not the id of an Entity node
UnresolvedRefType(nodes, f) ==
  /\ f.def.tag = "obj"
  /\ \E x \in RefIds : f.def.type = RefType(x) /\ x \notin NodeIds(nodes, "Entity")

\* one hard UNRESOLVED_REF_TYPE for each field of an Entity whose type is an
\* unresolved ref(x), at the field's type, and none for any other field
OneRefErrorPerField ==
  LET nodes == work.domain.nodes.items
      entities == {i \in DOMAIN nodes : nodes[i].kind = "Entity"}
      typeLoc(i, f) == "domain.nodes[" \o Idx(i) \o "].spec.fields." \o f.name \o ".type"
  IN /\ \A i \in entities : \A k \in DOMAIN nodes[i].spec.fields.items :
          LET f == nodes[i].spec.fields.items[k]
              at == FindingsAt("UNRESOLVED_REF_TYPE", typeLoc(i, f))
          IN /\ Cardinality(at) = IF UnresolvedRefType(nodes, f) THEN 1 ELSE 0
             /\ \A e \in at : allErrors[e].level = "hard"
     /\ \A e \in Findings(3, "UNRESOLVED_REF_TYPE") :
          \E i \in entities : \E k \in DOMAIN nodes[i].spec.fields.items :
            allErrors[e].location = typeLoc(i, nodes[i].spec.fields.items[k])

\* an Entity with an empty fields mapping has no finding about its fields
EmptyFieldsValid ==
  LET nodes == work.domain.nodes.items IN
  \A i \in DOMAIN nodes :
    (nodes[i].kind = "Entity" /\ nodes[i].spec.fields = [tag |-> "obj", items |-> <<>>]
       /\ nodes[i].contracts.tag = "absent")
    => \A e \in Findings(3, "ENTITY_MISSING_FIELDS") \cup Findings(3, "FIELD_MISSING_TYPE")
                \cup Findings(3, "UNRESOLVED_REF_TYPE") :
         allErrors[e].location # "domain.nodes[" \o Idx(i) \o "].spec"

\* the Entity nodes for which phase 3 returned ENTITY_MISSING_FIELDS
MissingFieldsAt ==
  {i \in DOMAIN work.domain.nodes.items :
     /\ work.domain.nodes.items[i].kind = "Entity"
     /\ FindingsAt("ENTITY_MISSING_FIELDS", "domain.nodes[" \o Idx(i) \o "].spec") # {}}

\* C13 as stated: one hard UNRESOLVED_REF_TYPE per field whose type is ref(x)
\* with x no Entity id, ENTITY_MISSING_FIELDS only when the fields key is
\* absent, and no finding for an empty fields mapping.
C13_MissingOnlyWhenAbsent ==
  PhaseReturned(3) =>
    /\ OneRefErrorPerField
    /\ EmptyFieldsValid
    /\ \A i \in MissingFieldsAt : work.domain.nodes.items[i].spec.fields.tag = "absent"

\* C13 (amended): one hard UNRESOLVED_REF_TYPE per field whose type is ref(x)
\* with x no Entity id; ENTITY_MISSING_FIELDS exactly when spec.fields is
\* absent, null or a scalar (falsy or not of type object); no finding for an
\* empty fields mapping.
C13_EntityFields ==
  PhaseReturned(3) =>
    /\ OneRefErrorPerField
    /\ EmptyFieldsValid
    /\ \A i \in DOMAIN work.domain.nodes.items :
         work.domain.nodes.items[i].kind = "Entity" =>
           (i \in MissingFieldsAt
              <=> work.domain.nodes.items[i].spec.fields.tag \in {"absent", "null", "str"})

\* an Entity whose fields refer to the Enum b and to itself: one finding, at
\* the first field
C13_Witness ==
  /\ PhaseReturned(3)
  /\ Len(work.domain.nodes.items) = 3
  /\ work.domain.nodes.items[3].kind = "Entity"
  /\ work.domain.nodes.items[3].spec.fields.items =
       FieldsOf(<< RefType("b"), RefType("c") >>)
  /\ Cardinality(Findings(3, "UNRESOLVED_REF_TYPE")) = 1
  /\ FindingsAt("UNRESOLVED_REF_TYPE", "domain.nodes[2].spec.fields.f0.type") # {}

\* the node lacks the key its kind requires: goals of a System, values of an
\* Enum (sequences), fields of a Value (a mapping)
LacksRequiredKey(node) ==
  \/ node.kind = "System" /\ node.spec.goals \notin {"arr", "arr0"}
  \/ node.kind = "Enum" /\ node.spec.values \notin {"arr", "arr0"}
  \/ node.kind = "Value" /\ node.spec.fields.tag # "obj"

\* C14: phase 3 returns a hard finding for a System node without a goals
\* sequence, for an Enum node without a values sequence and for a Value node
\* without fields.
C14_RequiredKeys ==
  PhaseReturned(3) =>
    \A i \in DOMAIN work.domain.nodes.items :
      LacksRequiredKey(work.domain.nodes.items[i]) =>
        \E e \in DOMAIN allErrors :
          /\ allErrors[e].phase = 3
          /\ allErrors[e].level = "hard"
          /\ allErrors[e].location = "domain.nodes[" \o Idx(i) \o "].spec"

\* the findings of phase 4 with the given code at the given location
EvoFindingsAt(code, location) ==
  {e \in Findings(4, code) : allErrors[e].location = location}

\* the indices i >= 1 (from zero) of the entries not based on their predecessor
BrokenAt(history) ==
  {i \in DOMAIN history : i > 1 /\ history[i].basedOn # history[i - 1].version}

\* C15: for a non-empty history phase 4 returns INVALID_HISTORY_START exactly
\* when the first entry's basedOn is not null, one BROKEN_HISTORY_CHAIN for
\* exactly each entry after the first whose basedOn differs from the version
\* of the entry before it, and VERSION_MISMATCH exactly when
\* project.versioning.current differs from the last entry's version; a
\* history with no phase 4 finding is a chain from null to the current version.
C15_HistoryChain ==
  (PhaseReturned(4) /\ work.history.tag = "arr" /\ work.history.items # <<>>) =>
    LET history == work.history.items
        current == work.project.versioning.current
        count(code) == Cardinality(Findings(4, code))
    IN /\ count("INVALID_HISTORY_START") = IF history[1].basedOn # NULLV THEN 1 ELSE 0
       /\ \A i \in DOMAIN history :
            Cardinality(EvoFindingsAt("BROKEN_HISTORY_CHAIN",
                                      "history[" \o Idx(i) \o "].basedOn"))
              = IF i \in BrokenAt(history) THEN 1 ELSE 0
       /\ count("BROKEN_HISTORY_CHAIN") = Cardinality(BrokenAt(history))
       /\ count("VERSION_MISMATCH") = IF current # history[Len(history)].version THEN 1 ELSE 0
       /\ \A e \in DOMAIN allErrors : allErrors[e].phase = 4 => allErrors[e].level = "hard"
       /\ (\A e \in DOMAIN allErrors : allErrors[e].phase # 4) =>
            /\ history[1].basedOn = NULLV
            /\ \A i \in 2..Len(history) : history[i].basedOn = history[i - 1].version
            /\ history[Len(history)].version = current

\* a history of three entries whose third is based on the first: one
\* BROKEN_HISTORY_CHAIN, at history[2]
C15_Witness ==
  /\ PhaseReturned(4)
  /\ work.history.tag = "arr" /\ Len(work.history.items) = 3
  /\ work.history.items[1].basedOn = NULLV
  /\ work.history.items[2].basedOn = work.history.items[1].version
  /\ work.history.items[2].version # work.history.items[1].version
  /\ work.history.items[3].basedOn = work.history.items[1].version
  /\ Findings(4, "INVALID_HISTORY_START") = {}
  /\ Cardinality(Findings(4, "BROKEN_HISTORY_CHAIN")) = 1
  /\ EvoFindingsAt("BROKEN_HISTORY_CHAIN", "history[2].basedOn") # {}

\* the change is one of the operations that require a migration
RequiresMigration(change) ==
  \/ change.op \in {"remove-field", "rename-field", "type-change", "remove-node",
                    "rename-node"}
  \/ change.op = "add-field" /\ change.required = TRUE

\* the entry declares no migration: migrations absent or empty
DeclaresNoMigration(e) == e.migrations.tag = "absent" \/ e.migrations = List(<<>>)

\* C16: for every change of every history entry, phase 4 returns exactly one
\* hard MISSING_MIGRATION at the change when the change requires a migration
\* (remove-field, rename-field, type-change, remove-node, rename-node, or
\* add-field with required true) and the entry declares none, and no
\* MISSING_MIGRATION otherwise.
C16_MissingMigration ==
  (PhaseReturned(4) /\ work.history.tag = "arr") =>
    LET history == work.history.items
        changeLoc(i, c) == "history[" \o Idx(i) \o "].changes[" \o Idx(c) \o "]"
    IN /\ \A i \in DOMAIN history : \A c \in DOMAIN history[i].changes.items :
            LET at == EvoFindingsAt("MISSING_MIGRATION", changeLoc(i, c))
            IN /\ Cardinality(at) =
                    IF /\ RequiresMigration(history[i].changes.items[c])
                       /\ DeclaresNoMigration(history[i])
                    THEN 1 ELSE 0
               /\ \A e \in at : allErrors[e].level = "hard"
       /\ \A e \in Findings(4, "MISSING_MIGRATION") :
            \E i \in DOMAIN history : \E c \in DOMAIN history[i].changes.items :
              allErrors[e].location = changeLoc(i, c)

\* an entry without migrations that removes a field and adds a node: one
\* MISSING_MIGRATION, at the first change
C16_Witness ==
  /\ PhaseReturned(4)
  /\ work.history.tag = "arr" /\ Len(work.history.items) = 1
  /\ work.history.items[1].migrations = NoList
  /\ work.history.items[1].changes =
       List(<< Change("remove-field", "a", "y", UNDEF),
               Change("add-node", "a", UNDEF, UNDEF) >>)
  /\ Cardinality(Findings(4, "MISSING_MIGRATION")) = 1
  /\ EvoFindingsAt("MISSING_MIGRATION", "history[0].changes[0]") # {}

\* the migration omits id or kind, has a kind outside data, schema, process,
\* or has steps that are absent, not a sequence, or an empty sequence
DefectiveMigration(m) ==
  \/ m.id = UNDEF
  \/ m.kind \notin {"data", "schema", "process"}
  \/ m.steps # "arr"

\* C17: whenever phase 4 is executed on a history with a defective migration,
\* it returns a hard finding located at that migration, whatever changes the
\* entry declares.
C17_MigrationShape ==
  \A r \in DOMAIN ran :
    (ran[r].phase = 4 /\ work.history.tag = "arr") =>
      \A i \in DOMAIN work.history.items :
        \A m \in DOMAIN work.history.items[i].migrations.items :
          DefectiveMigration(work.history.items[i].migrations.items[m]) =>
            \E e \in DOMAIN allErrors :
              /\ allErrors[e].phase = 4
              /\ allErrors[e].level = "hard"
              /\ allErrors[e].location \in
                   {"history[" \o Idx(i) \o "].migrations[" \o Idx(m) \o "]",
                    "history[" \o Idx(i) \o "].migrations[" \o Idx(m) \o "].kind"}

\* the findings of phase 5 with the given code at the given location
GenFindingsAt(code, location) ==
  {e \in Findings(5, code) : allErrors[e].location = location}

\* the zones that have a path which is equal, as a string, to the path of an
\* earlier zone
SamePathAsEarlier(zones) ==
  {i \in DOMAIN zones :
     /\ zones[i].path \notin {<<>>, <<UNDEF>>}
     /\ \E j \in 1..(i - 1) : zones[j].path = zones[i].path}

RECURSIVE GlobFrom(_, _, _, _)
GlobFrom(pattern, t, path, j) ==
  IF t > Len(pattern) THEN j > Len(path)
  ELSE IF t < Len(pattern) /\ pattern[t] = "*" /\ pattern[t + 1] = "*"
  THEN \E k \in j..(Len(path) + 1) : GlobFrom(pattern, t + 2, path, k)
  ELSE IF pattern[t] = "*"
  THEN \E k \in j..(Len(path) + 1) :
         /\ \A i \in j..(k - 1) : path[i] # "/"
         /\ GlobFrom(pattern, t + 1, path, k)
  ELSE j <= Len(path) /\ path[j] = pattern[t] /\ GlobFrom(pattern, t + 1, path, j + 1)

\* the file matches the glob of at least one zone whose mode is overwrite
InOverwriteZone(file, zones) ==
  \E z \in DOMAIN zones :
    zones[z].mode = "overwrite" /\ GlobFrom(zones[z].path, 1, file, 1)

\* C19: for every hook with a location.file phase 5 returns exactly one hard
\* HOOK_IN_OVERWRITE, at the hook's file, when the file matches the glob of
\* at least one overwrite zone, and none otherwise; a hook id equal to an
\* earlier hook's id gives DUPLICATE_HOOK_ID and equal anchors give
\* INVALID_HOOK_ANCHORS.
C19_HookInOverwrite ==
  (PhaseReturned(5) /\ work.generation.tag = "obj" /\ work.generation.hooks.tag = "arr") =>
    LET hooks == work.generation.hooks.items
        zones == work.generation.zones.items
        loc(i) == "generation.hooks[" \o Idx(i) \o "]"
    IN \A i \in DOMAIN hooks :
         /\ hooks[i].location.file \notin {<<>>, <<UNDEF>>} =>
              LET at == GenFindingsAt("HOOK_IN_OVERWRITE", loc(i) \o ".location.file")
              IN /\ Cardinality(at) =
                      IF InOverwriteZone(hooks[i].location.file, zones) THEN 1 ELSE 0
                 /\ \A e \in at : allErrors[e].level = "hard"
         /\ (\E j \in 1..(i - 1) : hooks[j].id = hooks[i].id)
              => GenFindingsAt("DUPLICATE_HOOK_ID", loc(i)) # {}
         /\ hooks[i].location.anchorStart = hooks[i].location.anchorEnd
              => GenFindingsAt("INVALID_HOOK_ANCHORS", loc(i) \o ".location") # {}

\* the code and location of the hard finding phase 6 owes to one pipeline
PipelineFinding(pipelines, name, missingCode) ==
  IF pipelines[name].tag # "obj"
  THEN {<<missingCode, "generation.pipelines">>}
  ELSE IF pipelines[name].cmd \in {UNDEF, "", "  "}
  THEN {<<"EMPTY_PIPELINE_CMD", "generation.pipelines." \o name \o ".cmd">>}
  ELSE {}

\* the hard findings phase 6 owes to the pipelines of the document
PipelineFindings(d) ==
  IF d.generation.tag = "obj" /\ d.generation.pipelines.tag = "obj"
  THEN PipelineFinding(d.generation.pipelines, "build", "MISSING_BUILD_PIPELINE")
       \cup PipelineFinding(d.generation.pipelines, "test", "MISSING_TEST_PIPELINE")
       \cup PipelineFinding(d.generation.pipelines, "migrate", "MISSING_MIGRATE_PIPELINE")
  ELSE {}

\* the Command nodes that no Scenario's when clause refers to
UncoveredCommands(nodes) ==
  {i \in DOMAIN nodes :
     /\ nodes[i].kind = "Command"
     /\ ~\E s \in DOMAIN nodes :
           /\ nodes[s].kind = "Scenario"
           /\ \E a \in DOMAIN nodes[s].spec.when.items :
                /\ nodes[s].spec.when.items[a].command.tag = "obj"
                /\ nodes[s].spec.when.items[a].command.id = nodes[i].id}

PhaseCalled(k) == \E i \in DOMAIN ran : ran[i].phase = k

\* phase k returned and none of the findings collected is its own
NoFindingsOf(k) ==
  PhaseReturned(k) /\ \A e \in DOMAIN allErrors : allErrors[e].phase # k

HistoryAbsentOrEmpty(d) == d.history.tag = "absent" \/ d.history = List(<<>>)

HasCommandNode(d) ==
  \E i \in DOMAIN d.domain.nodes.items : d.domain.nodes.items[i].kind = "Command"

AllPhases == <<1, 2, 3, 4, 5, 6>>

Carries(prompt, errors) ==
  /\ prompt.original = userPrompt
  /\ prompt.feedback
  /\ Len(prompt.section) = Len(errors)
  /\ \A i \in DOMAIN errors :
       /\ prompt.section[i].code = errors[i].code
       /\ prompt.section[i].message = errors[i].message
       /\ prompt.section[i].location = errors[i].location

LoopBounded ==
  /\ calls <= maxRetries
  /\ calls = 1 => sent = Prompt(userPrompt, FALSE, <<>>)
  /\ calls >= 2 => (fed # <<>> /\ Carries(sent, fed))
  /\ loopPc = "done" =>
       /\ outcome.attempts = calls
       /\ ~outcome.success =>
            /\ calls = maxRetries
            /\ outcome.errors = attemptErrors

\* C22: generateWithValidation calls provider.generate at most maxRetries
\* times and always returns; the attempts it returns is the number of calls
\* made; when every attempt fails it returns after exactly maxRetries calls
\* with success = false and the errors of the last attempt; the prompt of
\* each retry carries the errors of the attempt just before it.
C22_BoundedRetries == []LoopBounded /\ <>(loopPc = "done")

\* three attempts failed, the last two prompted with the errors before them
C22_Witness ==
  /\ loopPc = "done"
  /\ ~outcome.success
  /\ calls = 3
  /\ outcome.errors # <<>>
  /\ outcome.errors[1].code # "STRUCTURAL_ERROR"
  /\ fed # attemptErrors

\* the validateYaml call of the latest attempt returned a result of
\* validate() in non-strict mode without a hard finding
ValidatedOk ==
  /\ text.parses
  /\ entry = "validateYaml"
  /\ ~strict
  /\ pc = "returned"
  /\ \A i \in DOMAIN ran : ~ran[i].throws
  /\ \A e \in DOMAIN allErrors : allErrors[e].level # "hard"
  /\ result.ok
  /\ result.errors = <<>>

\* C23: generateWithValidation returns success = true only with the yaml
\* text of an attempt whose validateYaml call in non-strict mode returned ok;
\* it asks the provider again only after an attempt that failed, so the
\* first valid attempt is the one returned; a text that did not parse or did
\* not validate is never the yaml of a successful result.
C23_SuccessIsValid ==
  /\ (loopPc = "done" /\ outcome.success) =>
       /\ outcome.yaml = text
       /\ ValidatedOk
       /\ outcome.attempts = calls
  /\ (loopPc = "loop" /\ calls > 0) =>
       /\ ~ValidatedOk
       /\ attemptErrors # <<>>

\* the second attempt validated with a warning only and was returned
C23_Witness ==
  /\ loopPc = "done"
  /\ outcome.success
  /\ outcome.attempts = 2
  /\ result.warnings # <<>>
  /\ fed # <<>>

\* C24: cycle detection ends on every node sequence, with cycles, self-loops
\* and shared sub-trees, and iterates the children of each node id at most
\* once in a run, however many parents and roots reach it.
C24_ExpandedOnce ==
  PhaseReturned(2) =>
    LET t == traversal(work.domain.nodes.items) IN
    /\ \A i, j \in DOMAIN t.expanded : t.expanded[i] = t.expanded[j] => i = j
    /\ Range(t.expanded) = t.visited
    /\ \A n \in DOMAIN work.domain.nodes.items :
         work.domain.nodes.items[n].id \in t.visited

\* c is a child of a and of b, b is a child of a, and a closes a cycle from c
C24_Witness ==
  /\ PhaseReturned(2)
  /\ {<<"a", "b">>, <<"a", "c">>, <<"b", "c">>, <<"c", "a">>} \subseteq
       Edges(work.domain.nodes.items)
  /\ Len(traversal(work.domain.nodes.items).expanded) = 3

\* the last id of the path occurs earlier in it and each step is an edge
GenuineCycle(nodes, p) ==
  /\ Len(p) >= 2
  /\ \E k \in 1..(Len(p) - 1) : p[k] = p[Len(p)]
  /\ \A k \in 1..(Len(p) - 1) : <<p[k], p[k + 1]>> \in Edges(nodes)

\* C25: the context.cycle of every CIRCULAR_CHILDREN finding is a path along
\* children edges whose last id occurs earlier in the same path.
C25_GenuineCycles ==
  (PhaseReturned(2) /\ UniqueIds(work.domain.nodes.items)) =>
    \A e \in Findings(2, "CIRCULAR_CHILDREN") :
      GenuineCycle(work.domain.nodes.items, allErrors[e].cycle)

\* C26: in a result validate() returns, the phase of every finding is a
\* selected phase and at most result.phase, the phase of every hard finding
\* is result.phase, and in non-strict mode warnings are there only with
\* result.phase = 6.
C26_FindingPhases ==
  Built =>
    LET all == result.errors \o result.warnings IN
    /\ \A i \in DOMAIN all :
         /\ includes(phases, all[i].phase)
         /\ all[i].phase <= result.phase
         /\ all[i].level = "hard" => all[i].phase = result.phase
    /\ (~strict /\ result.warnings # <<>>) => result.phase = 6

\* a call over phases 6, 4, 5 returned hard findings and a warning of phase 6
C26_Witness ==
  /\ Built
  /\ ~strict
  /\ phases = <<6, 4, 5>>
  /\ result.warnings # <<>>
  /\ result.errors # <<>>
  /\ result.phase = 6

\* C27: parsePhases yields the empty list for a reversed range and for a
\* value that is no number; with the empty list validate() calls no phase
\* function and returns ok = true, no errors, no warnings and phase = 1,
\* whatever the document.
C27_EmptyPhases ==
  /\ \A p \in EmptyPhaseStrs : parsePhases(p) = <<>>
  /\ (phases = <<>> /\ pc # "idle" /\ (entry = "validate" \/ text.parses)) =>
       /\ ran = <<>>
       /\ pc # "thrown"
       /\ Built => result = [ok |-> TRUE, errors |-> <<>>, warnings |-> <<>>, phase |-> 1]

\* a document whose domain is null was returned as valid
C27_Witness ==
  /\ Built
  /\ entry = "validate"
  /\ phases = <<>>
  /\ work.domain.tag = "null"
  /\ result.ok

\* the order in which bumpVersion writes and calls git
BumpOrder == << "write", "add", "commit", "tag" >>

\* the document bumpVersion validated is the one read, with current set to
\* the new version and an entry based on the previous version appended
UpdatedFrom(before, after) ==
  /\ after.tag = "obj"
  /\ after.history.tag = "arr"
  /\ Len(after.history.items) >= 1
  /\ LET items == after.history.items
         old == IF before.history.tag = "arr" THEN before.history.items ELSE <<>>
     IN /\ Len(items) = Len(old) + 1
        /\ SubSeq(items, 1, Len(old)) = old
        /\ Last(items).basedOn = before.project.versioning.current
        /\ Last(items).version = after.project.versioning.current
        /\ after.project.versioning.current # before.project.versioning.current

\* C28: bumpVersion writes the file and calls git only after the updated
\* document has passed validation: after a not-ok validation or with dryRun
\* the file is as it was read and nothing was added, committed or tagged;
\* otherwise the effects come in the order write, add, commit, tag, a tag
\* only after a commit that succeeded and with noTag unset.
C28_WriteAfterValidation ==
  /\ Len(effects) <= 4
  /\ \A i \in DOMAIN effects : effects[i] = BumpOrder[i]
  /\ effects # <<>> =>
       /\ bumpPc = "done"
       /\ ValidatedOk
       /\ ~options.dryRun
       /\ specFile = text
       /\ UpdatedFrom(content.value, specFile.value)
  /\ (effects = <<>> /\ bumpPc # "idle") =>
       /\ specFile = content
       /\ git \in GitStates
  /\ Len(effects) > 1 => (git.present /\ ~options.noCommit)
  /\ Len(effects) = 4 => ~options.noTag

\* a bump wrote the file, added, committed and tagged
C28_Witness ==
  /\ bumpPc = "done"
  /\ effects = BumpOrder
  /\ bumpResult.success
  /\ "v1.1.0" \in git.tags

\* validate(d) with the default options returns ok
Passes(d) ==
  /\ ~validateStructural(d).throws
  /\ ~hasHardErrors(validateStructural(d).errors)
  /\ ~validateReferential(d).throws
  /\ ~hasHardErrors(validateReferential(d).errors)
  /\ ~validateSemantic(d).throws
  /\ ~hasHardErrors(validateSemantic(d).errors)
  /\ ~validateEvolution(semanticEffect(d)).throws
  /\ ~hasHardErrors(validateEvolution(semanticEffect(d)).errors)
  /\ ~validateGeneration(semanticEffect(d)).throws
  /\ ~hasHardErrors(validateGeneration(semanticEffect(d)).errors)
  /\ ~validateVerifiability(semanticEffect(d)).throws
  /\ ~hasHardErrors(validateVerifiability(semanticEffect(d)).errors)

\* bumpVersion has returned from a file that passes validation and has a
\* semver current version, with no change entries
BumpedValid ==
  /\ bumpPc = "done"
  /\ content.parses
  /\ content.value.tag = "obj"
  /\ semverValid(currentOf(content))
  /\ options.changes = <<>>
  /\ Passes(content.value)

\* C29: for a document that passes validation and has a semver current
\* version, the document bumpVersion builds with no change entries passes
\* validation too, its new entry based on the previous current version and
\* its current version that of the new entry, whether the history was
\* absent, empty or a valid chain.
C29_BumpPreservesValidity ==
  BumpedValid =>
    /\ ValidatedOk
    /\ UpdatedFrom(content.value, text.value)

\* null for the first entry, the version of the entry before it otherwise
ChainCorrect(history) ==
  \A i \in DOMAIN history :
    IF i = 1 THEN history[i].basedOn = NULLV
    ELSE history[i].basedOn = history[i - 1].version

ChainCodes == {"INVALID_HISTORY_START", "BROKEN_HISTORY_CHAIN", "VERSION_MISMATCH"}

\* C30: checkVersionConsistency reports the history chain as valid only
\* when each basedOn is correct, and the current version as consistent only
\* when it is the version of the last entry, so that validateEvolution has
\* no chain or version finding on a history it accepts.
C30_ConsistencyAgrees ==
  (consistency.set /\ ~consistency.throws /\ consistency.readable = "passed"
     /\ consistency.of.value.tag = "obj") =>
    LET d == consistency.of.value
        history == IF d.history.tag = "arr" THEN d.history.items ELSE <<>>
        out == validateEvolution(d)
    IN /\ consistency.chain = "passed" => ChainCorrect(history)
       /\ consistency.current = "passed" =>
            (history # <<>> /\ Last(history).version = consistency.specVersion)
       /\ (consistency.chain = "passed" /\ consistency.current = "passed") =>
            /\ ~out.throws
            /\ \A e \in DOMAIN out.errors : out.errors[e].code \notin ChainCodes

====
